---- MODULE Spec2Model ----
(***************************************************************************)
(* Forgewright: the release readiness pipeline.                            *)
(*                                                                         *)
(*   packages/ai/src/utils.ts      withRetry, isRetryableError, backoff    *)
(*   packages/ai/src/analyzer.ts   Analyzer (AI requests through withRetry)*)
(*   packages/cli/src/engine.ts    analyze, generateChangelog,             *)
(*                                 executeRelease                          *)
(*   packages/cli/src/commands/release.ts   the release command            *)
(*   git.ts / github.ts            the repository and host gateways        *)
(*                                                                         *)
(* Strings are TLA+ strings; they are taken apart with Len and SubSeq.     *)
(***************************************************************************)
EXTENDS Integers, Sequences, FiniteSets, TLC

VARIABLES
    retry,      \* the running withRetry invocation (utils.ts:78-103)
    pc,         \* position of the release command (release.ts:10-114)
    repo,       \* the git repository: tags, commits since the latest tag,
                \* working tree, CHANGELOG.md, tags pushed to origin
    host,       \* tags that have a release on the host
    run,        \* the locals of the running command and of executeRelease
    calls,      \* repository and host calls made by the running executeRelease
    invocations,\* withRetry invocations running concurrently (utils.ts:78-103)
    unit        \* one function called on its own: its arguments and result

vars == <<retry, pc, repo, host, run, calls, invocations, unit>>
pipeVars == <<pc, repo, host, run, calls, invocations, unit>>

(***************************************************************************)
(* Bounds of the model.                                                    *)
(***************************************************************************)
MaxRetriesOpt == 3      \* largest explicit options.maxRetries explored
MaxRuns == 2            \* command runs explored one after the other
MaxExternal == 1        \* steps of the external actor on the repository

(***************************************************************************)
(* String helpers (JavaScript String.prototype).                           *)
(***************************************************************************)
CharAt(s, i) == SubSeq(s, i, i)

StartsWith(s, p) == Len(s) >= Len(p) /\ SubSeq(s, 1, Len(p)) = p

Includes(s, p) ==
    \E i \in 1..(Len(s) - Len(p) + 1) : SubSeq(s, i, i + Len(p) - 1) = p

LowerChar(c) ==
    CASE c = "A" -> "a" [] c = "B" -> "b" [] c = "C" -> "c" [] c = "D" -> "d"
      [] c = "E" -> "e" [] c = "F" -> "f" [] c = "G" -> "g" [] c = "H" -> "h"
      [] c = "I" -> "i" [] c = "J" -> "j" [] c = "K" -> "k" [] c = "L" -> "l"
      [] c = "M" -> "m" [] c = "N" -> "n" [] c = "O" -> "o" [] c = "P" -> "p"
      [] c = "Q" -> "q" [] c = "R" -> "r" [] c = "S" -> "s" [] c = "T" -> "t"
      [] c = "U" -> "u" [] c = "V" -> "v" [] c = "W" -> "w" [] c = "X" -> "x"
      [] c = "Y" -> "y" [] c = "Z" -> "z" [] OTHER -> c

RECURSIVE ToLowerCase(_)
ToLowerCase(s) ==
    IF Len(s) = 0 THEN ""
    ELSE LowerChar(CharAt(s, 1)) \o ToLowerCase(SubSeq(s, 2, Len(s)))

(***************************************************************************)
(* Thrown values.  isError is `instanceof Error`; class is what actually   *)
(* went wrong (the code never sees it: it only reads the message).         *)
(***************************************************************************)
Err(class, message) == [isError |-> TRUE, class |-> class, message |-> message]

UndefinedValue == [isError |-> FALSE, class |-> "undefined", message |-> ""]

ErrRateLimit == Err("transient", "Rate Limit exceeded")
ErrConnReset == Err("transient", "read ECONNRESET")
ErrInvalidKey == Err("other", "Invalid API key")
ErrSchema == Err("validation", "Type validation failed: expected boolean")
ErrSchemaValue == Err("validation", "Type validation failed: Value: {total: 500}")
ThrownString == [isError |-> FALSE, class |-> "other", message |-> "timeout"]

(***************************************************************************)
(* utils.ts                                                                *)
(***************************************************************************)
DefaultMaxRetries == 3
DefaultInitialDelayMs == 1000
DefaultMaxDelayMs == 10000

RetryablePatterns ==
    { "rate limit", "too many requests",
      "timeout", "network", "econnreset", "econnrefused",
      "500", "502", "503",
      "overloaded", "capacity" }

IsRetryableError(error) ==
    /\ error.isError
    /\ \E p \in RetryablePatterns : Includes(ToLowerCase(error.message), p)

\* options.shouldRetry: the default predicate or a caller's own
ShouldRetry(pred, error) ==
    CASE pred = "default" -> IsRetryableError(error)
      [] pred = "always" -> TRUE
      [] OTHER -> FALSE

Min(a, b) == IF a <= b THEN a ELSE b

\* mutant: the jitter reaches 100% of the exponential delay
CalculateBackoff_FullJitter(attempt, initialDelayMs, maxDelayMs, rnd) ==
    LET exponentialDelay == initialDelayMs * 2 ^ (attempt - 1)
        jitter == (rnd * exponentialDelay) \div 1000
    IN  Min(exponentialDelay + jitter, maxDelayMs)

\* Math.random() is modelled in thousandths: rnd \in 0..999 stands for rnd/1000.
\* Delays are whole milliseconds (the fraction of the jitter is dropped).
CalculateBackoff(attempt, initialDelayMs, maxDelayMs, rnd) ==
    LET exponentialDelay == initialDelayMs * 2 ^ (attempt - 1)
        jitter == (rnd * 3 * exponentialDelay) \div 10000
    IN  Min(exponentialDelay + jitter, maxDelayMs)

RandomDraws == {0, 999}

\* mutant: the last attempt is recognised one attempt late
IsLastAttempt_Late(attempt, maxRetries) == attempt = maxRetries + 1

IsLastAttempt(attempt, maxRetries) == attempt = maxRetries

\* mutant: the predicate is not consulted
GivesUp_OnlyOnLast(attempt, maxRetries, pred, error) ==
    attempt = maxRetries

\* catch block, utils.ts:89-94: rethrow or back off
GivesUp(attempt, maxRetries, pred, error) ==
    IsLastAttempt(attempt, maxRetries) \/ ~ShouldRetry(pred, error)

NoThrow == [err |-> UndefinedValue, at |-> 0]

RetryIdle ==
    [pc |-> "idle", site |-> "none", maxRetries |-> 0, pred |-> "default",
     initialDelayMs |-> 0, maxDelayMs |-> 0, attempt |-> 0, log |-> <<>>,
     lastError |-> NoThrow, thrown |-> NoThrow, value |-> 0,
     sleeps |-> 0, delay |-> 0]

\* the for-loop head, utils.ts:83, and the throw after the loop, utils.ts:102
LoopHead(r) ==
    IF r.attempt <= r.maxRetries
    THEN [r EXCEPT !.pc = "call"]
    ELSE [r EXCEPT !.pc = "rejected", !.thrown = r.lastError]

\* withRetry(fn, options) up to its first await
WithRetryEnter(site, maxRetries, pred, initialDelayMs, maxDelayMs) ==
    LoopHead([RetryIdle EXCEPT !.site = site, !.maxRetries = maxRetries,
                               !.pred = pred, !.initialDelayMs = initialDelayMs,
                               !.maxDelayMs = maxDelayMs, !.attempt = 1])

\* What one invocation of the wrapped operation can do.  A success returns
\* the number of the invocation that produced it.
Ok == [ok |-> TRUE, err |-> UndefinedValue]
Fail(e) == [ok |-> FALSE, err |-> e]

GenericErrors ==
    {ErrRateLimit, ErrConnReset, ErrInvalidKey, ErrSchemaValue, ThrownString}

\* generateObject validates the response against the schema; generateText
\* has no schema (analyzer.ts:25-42, 70-77; changelog.ts:26-32)
SiteErrors(site) ==
    CASE site = "generic" -> GenericErrors
      [] site \in {"detectWorkUnits", "evaluateReadiness"} ->
            {ErrRateLimit, ErrInvalidKey, ErrSchema, ErrSchemaValue}
      [] OTHER -> {ErrRateLimit, ErrInvalidKey}

OpOutcomes(site) == {Ok} \cup {Fail(e) : e \in SiteErrors(site)}

\* one pass through the try block of invocation r: await fn(), utils.ts:84-98
AttemptResults(r) ==
    UNION { LET n == Len(r.log) + 1
                r1 == [r EXCEPT !.log = Append(@, out)]
                e == [err |-> out.err, at |-> n]
                r2 == [r1 EXCEPT !.lastError = e]
            IN  IF out.ok
                THEN { [r1 EXCEPT !.pc = "resolved", !.value = n] }
                ELSE IF GivesUp(r.attempt, r.maxRetries, r.pred, out.err)
                THEN { [r2 EXCEPT !.pc = "rejected", !.thrown = e] }
                ELSE { [r2 EXCEPT
                           !.pc = "sleep",
                           !.sleeps = @ + 1,
                           !.delay = CalculateBackoff(r.attempt, r.initialDelayMs,
                                                      r.maxDelayMs, rnd)] :
                       rnd \in RandomDraws }
          : out \in OpOutcomes(r.site) }

\* the sleep of invocation r ends: attempt++ and the loop head again,
\* utils.ts:97, 83
Woken(r) == LoopHead([r EXCEPT !.attempt = @ + 1, !.delay = 0])

RetryAttempt ==
    /\ retry.pc = "call"
    /\ retry' \in AttemptResults(retry)
    /\ UNCHANGED pipeVars

\* the sleep ends: attempt++ and the loop head again, utils.ts:97, 83
RetryWake ==
    /\ retry.pc = "sleep"
    /\ retry' = Woken(retry)
    /\ UNCHANGED pipeVars

\* no function is being called on its own
NoUnit == [fn |-> "none"]

(***************************************************************************)
(* Optional values: null / undefined is the empty sequence.                *)
(***************************************************************************)
None == <<>>
Some(x) == <<x>>
IsSome(o) == Len(o) > 0
Get(o) == o[1]

(***************************************************************************)
(* core/src/analyzer.ts: versions                                          *)
(***************************************************************************)
DigitChar(d) == SubSeq("0123456789", d + 1, d + 1)

IsDigit(c) == \E d \in 0..9 : DigitChar(d) = c

DigitValue(c) == CHOOSE d \in 0..9 : DigitChar(d) = c

\* length of the longest prefix of digits (a greedy \d+)
RECURSIVE DigitRun(_)
DigitRun(s) ==
    IF Len(s) = 0 \/ ~IsDigit(CharAt(s, 1)) THEN 0
    ELSE 1 + DigitRun(SubSeq(s, 2, Len(s)))

\* Number.parseInt(digits, 10)
RECURSIVE ParseInt(_)
ParseInt(s) ==
    IF Len(s) = 0 THEN 0
    ELSE 10 * ParseInt(SubSeq(s, 1, Len(s) - 1)) + DigitValue(CharAt(s, Len(s)))

\* `${n}` for a non-negative integer
RECURSIVE IntToStr(_)
IntToStr(n) ==
    IF n < 10 THEN DigitChar(n) ELSE IntToStr(n \div 10) \o DigitChar(n % 10)

Drop(s, k) == SubSeq(s, k + 1, Len(s))

ParseVersion(version) ==
    LET clean == IF StartsWith(version, "v") THEN Drop(version, 1) ELSE version
        a == DigitRun(clean)
        r1 == Drop(clean, a)
        b == DigitRun(Drop(r1, 1))
        r2 == Drop(Drop(r1, 1), b)
        c == DigitRun(Drop(r2, 1))
    IN  IF /\ a >= 1 /\ StartsWith(r1, ".")
           /\ b >= 1 /\ StartsWith(r2, ".")
           /\ c >= 1
        THEN [major |-> ParseInt(SubSeq(clean, 1, a)),
              minor |-> ParseInt(SubSeq(Drop(r1, 1), 1, b)),
              patch |-> ParseInt(SubSeq(Drop(r2, 1), 1, c))]
        ELSE [major |-> 0, minor |-> 0, patch |-> 0]

BumpVersion_KeepsLower(version, bump) ==
    LET v == ParseVersion(version)
        newVersion ==
            CASE bump = "major" ->
                    IntToStr(v.major + 1) \o "." \o IntToStr(v.minor) \o "."
                        \o IntToStr(v.patch)
              [] bump = "minor" ->
                    IntToStr(v.major) \o "." \o IntToStr(v.minor + 1) \o "."
                        \o IntToStr(v.patch)
              [] OTHER ->
                    IntToStr(v.major) \o "." \o IntToStr(v.minor) \o "."
                        \o IntToStr(v.patch + 1)
    IN  IF StartsWith(version, "v") THEN "v" \o newVersion ELSE newVersion

BumpVersion(version, bump) ==
    LET v == ParseVersion(version)
        hadV == StartsWith(version, "v")
        newVersion ==
            CASE bump = "major" -> IntToStr(v.major + 1) \o ".0.0"
              [] bump = "minor" ->
                    IntToStr(v.major) \o "." \o IntToStr(v.minor + 1) \o ".0"
              [] OTHER ->
                    IntToStr(v.major) \o "." \o IntToStr(v.minor) \o "."
                        \o IntToStr(v.patch + 1)
    IN  IF hadV THEN "v" \o newVersion ELSE newVersion

(***************************************************************************)
(* ai/src/analyzer.ts: the local bump heuristic                            *)
(***************************************************************************)
SuggestVersionBump_FeatureFirst(workUnits, commits) ==
    IF \/ \E i \in 1..Len(workUnits) : workUnits[i].value = "high"
       \/ \E i \in 1..Len(commits) : StartsWith(commits[i].message, "feat")
    THEN "minor"
    ELSE IF \E i \in 1..Len(commits) :
                \/ Includes(commits[i].message, "BREAKING")
                \/ StartsWith(commits[i].message, "!")
                \/ Includes(commits[i].body, "BREAKING CHANGE")
    THEN "major"
    ELSE "patch"

SuggestVersionBump(workUnits, commits) ==
    LET hasBreaking ==
            \E i \in 1..Len(commits) :
                \/ Includes(commits[i].message, "BREAKING")
                \/ StartsWith(commits[i].message, "!")
                \/ Includes(commits[i].body, "BREAKING CHANGE")
        hasFeature ==
            \/ \E i \in 1..Len(workUnits) : workUnits[i].value = "high"
            \/ \E i \in 1..Len(commits) : StartsWith(commits[i].message, "feat")
    IN  IF hasBreaking THEN "major"
        ELSE IF hasFeature THEN "minor"
        ELSE "patch"

(***************************************************************************)
(* ai/src/changelog.ts                                                     *)
(***************************************************************************)
RECURSIVE Join(_, _)
Join(parts, sep) ==
    IF Len(parts) = 0 THEN ""
    ELSE IF Len(parts) = 1 THEN parts[1]
    ELSE parts[1] \o sep \o Join(Tail(parts), sep)

\* new Date().toISOString().split("T")[0]
Today == "2026-01-01"

Bullets(commits) ==
    Join([i \in 1..Len(commits) |-> "- " \o commits[i].message], "\n")

IsFeat(c) == StartsWith(c.message, "feat")
IsFix(c) == StartsWith(c.message, "fix")
IsOther(c) == ~StartsWith(c.message, "feat") /\ ~StartsWith(c.message, "fix")

GenerateMinimalChangelog_AlwaysChanges(commits, version) ==
    LET features == SelectSeq(commits, IsFeat)
        fixes == SelectSeq(commits, IsFix)
        others == SelectSeq(commits, IsOther)
        heading == "## " \o version \o " - " \o Today
    IN  IF Len(commits) = 0
        THEN heading \o "\n\nNo significant changes."
        ELSE heading
             \o (IF Len(features) > 0
                 THEN "\n### New Features\n" \o Bullets(features) ELSE "")
             \o (IF Len(fixes) > 0
                 THEN "\n### Bug Fixes\n" \o Bullets(fixes) ELSE "")
             \o (IF Len(others) > 0
                 THEN "\n### Changes\n" \o Bullets(others) ELSE "")

\* changelog.ts:37-69
GenerateMinimalChangelog(commits, version) ==
    LET features == SelectSeq(commits, IsFeat)
        fixes == SelectSeq(commits, IsFix)
        others == SelectSeq(commits, IsOther)
        heading == "## " \o version \o " - " \o Today
    IN  IF Len(commits) = 0
        THEN heading \o "\n\nNo significant changes."
        ELSE heading
             \o (IF Len(features) > 0
                 THEN "\n### New Features\n" \o Bullets(features) ELSE "")
             \o (IF Len(fixes) > 0
                 THEN "\n### Bug Fixes\n" \o Bullets(fixes) ELSE "")
             \o (IF Len(others) > 0 /\ Len(features) = 0 /\ Len(fixes) = 0
                 THEN "\n### Changes\n" \o Bullets(others) ELSE "")

IsSpace(c) == c \in {" ", "\t", "\n", "\r"}

\* length of the longest prefix of whitespace (a greedy \s*)
RECURSIVE SpaceRun(_)
SpaceRun(s) ==
    IF Len(s) = 0 \/ ~IsSpace(CharAt(s, 1)) THEN 0
    ELSE 1 + SpaceRun(SubSeq(s, 2, Len(s)))

\* length of the match of /^#\s+Changelog\s*\n/i, 0 when there is none
HeaderMatchLength(text) ==
    LET w == SpaceRun(Drop(text, 1))
        afterWord == Drop(text, 1 + w + 9)
        t == SpaceRun(afterWord)
        newlines == {i \in 1..t : CharAt(afterWord, i) = "\n"}
    IN  IF /\ StartsWith(text, "#")
           /\ w >= 1
           /\ ToLowerCase(SubSeq(text, 2 + w, 1 + w + 9)) = "changelog"
           /\ newlines # {}
        THEN 1 + w + 9 + (CHOOSE i \in newlines : \A j \in newlines : j <= i)
        ELSE 0

UpdateChangelogFile(existingContent, newEntry) ==
    LET insertPos == HeaderMatchLength(existingContent)
    IN  IF insertPos > 0
        THEN SubSeq(existingContent, 1, insertPos) \o "\n" \o newEntry \o "\n"
                \o Drop(existingContent, insertPos)
        ELSE "# Changelog\n\n" \o newEntry \o "\n\n" \o existingContent

(***************************************************************************)
(* cli/src/github.ts: owner and repository from the origin URL             *)
(***************************************************************************)
\* length of the longest prefix of s without a character of stop
RECURSIVE RunExcept(_, _)
RunExcept(s, stop) ==
    IF Len(s) = 0 \/ CharAt(s, 1) \in stop THEN 0
    ELSE 1 + RunExcept(SubSeq(s, 2, Len(s)), stop)

\* prefix([^/]+)\/(name+) tried at position i, name being [^stop]
RepoMatchAt(url, i, prefix, stop) ==
    LET rest == Drop(url, i - 1 + Len(prefix))
        o == RunExcept(rest, {"/"})
        afterOwner == Drop(rest, o)
        n == RunExcept(Drop(afterOwner, 1), stop)
    IN  IF /\ StartsWith(Drop(url, i - 1), prefix)
           /\ o >= 1 /\ StartsWith(afterOwner, "/") /\ n >= 1
        THEN Some([owner |-> SubSeq(rest, 1, o),
                   name |-> SubSeq(Drop(afterOwner, 1), 1, n)])
        ELSE None

\* String.prototype.match: the leftmost position at which the pattern matches
RepoMatch(url, prefix, stop) ==
    LET hits == {i \in 1..Len(url) : IsSome(RepoMatchAt(url, i, prefix, stop))}
    IN  IF hits = {} THEN None
        ELSE RepoMatchAt(url, CHOOSE i \in hits : \A j \in hits : i <= j,
                         prefix, stop)

\* url is what `git remote get-url origin` printed, trimmed; "" when it
\* printed nothing or failed (getRemoteUrl returns null)
ParseRepoFromRemote(url) ==
    IF url = "" THEN None
    ELSE LET sshMatch == RepoMatch(url, "git@github.com:", {"."})
             httpsMatch == RepoMatch(url, "github.com/", {"/", "."})
         IN  IF IsSome(sshMatch) THEN sshMatch
             ELSE IF IsSome(httpsMatch) THEN httpsMatch
             ELSE None

(***************************************************************************)
(* The repository and the host, as the gateways see them.                  *)
(*   repo.tags     tag names in creation order; the last one is what       *)
(*                 `git describe --tags --abbrev=0` prints                 *)
(*   repo.pending  the commits of `git log <latest tag>..HEAD`             *)
(***************************************************************************)
Commit(message, body) == [message |-> message, body |-> body]

CommitFeat == Commit("feat: add X", "")
CommitFix == Commit("fix: Y", "")
CommitDocs == Commit("docs: Z", "")

InitRepos ==
    { [tags |-> <<>>, pending |-> <<CommitFeat>>, clean |-> c,
       changelogFile |-> None, pushed |-> {}, external |-> 0] : c \in BOOLEAN }
    \cup
    { [tags |-> <<"v1.0.0">>, pending |-> p, clean |-> TRUE,
       changelogFile |-> Some("# Changelog\n\n## v1.0.0 - 2025-12-01\n"),
       pushed |-> {"v1.0.0"}, external |-> 0] :
         p \in {<<>>, <<CommitFix, CommitDocs>>} }

\* getLatestTag, git.ts:90-108 (null when there is no tag)
GetLatestTag(r) ==
    IF Len(r.tags) = 0 THEN None ELSE Some(r.tags[Len(r.tags)])

HasTag(r, name) == \E i \in 1..Len(r.tags) : r.tags[i] = name

(***************************************************************************)
(* Errors of the pipeline.                                                 *)
(***************************************************************************)
ErrMissingKey ==
    Err("precondition",
        "Missing API key for anthropic. Set the ANTHROPIC_API_KEY environment variable.")
ErrDirty ==
    Err("precondition",
        "Working directory is not clean. Commit or stash changes first.")
ErrNoToken == Err("precondition", "GITHUB_TOKEN is required to create releases")
\* Bun's ShellError of a command that exits non-zero
ErrShell == Err("process", "Failed with exit code 128")
ErrHost503 ==
    Err("transient", "Failed to create GitHub release: 503 Service Unavailable")
ErrHost422 ==
    Err("other", "Failed to create GitHub release: 422 Validation Failed")

(***************************************************************************)
(* Responses of the reasoning provider that conform to the schemas.        *)
(***************************************************************************)
WorkUnitResponses ==
    { <<>>,
      <<[status |-> "complete", value |-> "high"]>>,
      <<[status |-> "in_progress", value |-> "low"]>> }

Score(total, completeness, value, coherence, stability, ready, bump) ==
    [total |-> total, completeness |-> completeness, value |-> value,
     coherence |-> coherence, stability |-> stability, ready |-> ready,
     suggestedBump |-> bump]

\* suggestedBump "none": the optional field is absent
ReadinessResponses ==
    { Score(85, 35, 25, 17, 8, TRUE, "none"),
      Score(85, 35, 25, 17, 8, TRUE, "major"),
      Score(72, 30, 20, 14, 8, TRUE, "patch"),
      Score(40, 15, 10, 10, 5, FALSE, "none"),
      Score(90, 10, 5, 5, 0, FALSE, "minor") }

NarrativeTexts == { "### What's New\n\nX is now available." }

CiStatuses == {"success", "failure", "pending", "unknown"}

RemoteUrls ==
    { "", "git@github.com:org/proj.git", "https://github.com/org/proj",
      "https://gitlab.com/org/proj.git" }

\* what parseRepoFromRemote makes of the remote URL
RemoteResolutions == { ParseRepoFromRemote(url) : url \in RemoteUrls }

\* whether parseRepoFromRemote finds a repository in the remote URL
RemoteResolves == { IsSome(ParseRepoFromRemote(url)) : url \in RemoteUrls }

Answers == {"y", "Y", "n", ""}

(***************************************************************************)
(* The locals of one run of the release command.                           *)
(***************************************************************************)
\* --force, --ci, config.mode and the answer typed at the prompt, as far
\* as the command has read them ("" / "none": not read)
NoFlags == [force |-> FALSE, mode |-> "none", ci |-> FALSE, answer |-> "none"]

RunInit(n) ==
    [n |-> n, token |-> FALSE, createRelease |-> FALSE,
     currentVersion |-> "", commits |-> <<>>, workUnits |-> <<>>,
     readiness |-> None, suggestedVersion |-> None, requests |-> {},
     version |-> "", changelog |-> "",
     dryRun |-> FALSE, skipGitHub |-> FALSE, inExecute |-> FALSE,
     repoAtEntry |-> None, cleanAtCheck |-> None, tagName |-> "",
     resolved |-> None, cliAvailable |-> None,
     result |-> None, error |-> None, apiKey |-> TRUE,
     cleanAtTag |-> None, flags |-> NoFlags]

Terminal == {"off", "done", "exit0", "exit1"}

\* a rejected promise reaches the catch of release.ts:110-113
Throw(r, e) == [r EXCEPT !.error = Some(e)]

DefaultRetry_Once(site) ==
    WithRetryEnter(site, 1, "default", DefaultInitialDelayMs, DefaultMaxDelayMs)

\* withRetry(fn) without options: analyzer.ts:25, 70; changelog.ts:26
DefaultRetry(site) ==
    WithRetryEnter(site, DefaultMaxRetries, "default",
                   DefaultInitialDelayMs, DefaultMaxDelayMs)

RetryDone == retry.pc \in {"resolved", "rejected"}

\* analyzer.ts:44-49: identifiers are assigned locally
AssignIds(units) ==
    [i \in 1..Len(units) |->
        [id |-> "wu-" \o IntToStr(i), status |-> units[i].status,
         value |-> units[i].value]]

\* engine.ts:88-103
ZeroReadiness == Score(0, 0, 0, 0, 0, FALSE, "none")

NoCommits_Never(commits) == FALSE

\* engine.ts:88
NoCommits(commits) == Len(commits) = 0

\* the provider of the configuration file
ConfiguredProvider == "anthropic"

HasApiKey_NotChecked(provider, envSet) == TRUE

\* provider.ts:115-127: envSet says whether the provider's environment
\* variable holds a key; ollama has none
HasApiKey(provider, envSet) == provider = "ollama" \/ envSet

(***************************************************************************)
(* release.ts:25-26, engine.ts:40-106: createEngine, then analyze up to    *)
(* the classification request.                                             *)
(***************************************************************************)
CmdStart ==
    /\ pc \in Terminal
    /\ run.n < MaxRuns
    /\ calls' = <<>>
    /\ UNCHANGED <<invocations, unit, repo, host>>
    /\ \E apiKey \in BOOLEAN, gitOk \in BOOLEAN :
         LET latestTag == GetLatestTag(repo)
             r0 == [RunInit(run.n + 1) EXCEPT
                       !.apiKey = apiKey,
                       !.currentVersion =
                           IF IsSome(latestTag) THEN Get(latestTag) ELSE "0.0.0"]
             commits == repo.pending
         IN  IF ~HasApiKey(ConfiguredProvider, apiKey)
             THEN /\ run' = Throw([RunInit(run.n + 1) EXCEPT !.apiKey = apiKey],
                                  ErrMissingKey)
                  /\ pc' = "exit1"
                  /\ retry' = RetryIdle
             ELSE IF ~gitOk
             THEN /\ run' = Throw(r0, ErrShell)
                  /\ pc' = "exit1"
                  /\ retry' = RetryIdle
             ELSE IF NoCommits(commits)
             THEN /\ run' = [r0 EXCEPT !.readiness = Some(ZeroReadiness)]
                  /\ pc' = "gate"
                  /\ retry' = RetryIdle
             ELSE /\ run' = [r0 EXCEPT !.commits = commits]
                  /\ pc' = "detect"
                  /\ retry' = DefaultRetry("detectWorkUnits")

\* the remote requests analyze has issued so far, with those of the
\* withRetry invocation that just ended
Requested(r, site) ==
    IF Len(retry.log) > 0 THEN r.requests \cup {site} ELSE r.requests

\* engine.ts:106-121: the work units arrive; the CI status is asked from the
\* host when the remote resolves to a repository; the scoring request.
\* ciPassing only goes into the text of the prompt (engine.ts:113-121).
CmdDetected ==
    /\ pc = "detect"
    /\ RetryDone
    /\ UNCHANGED <<invocations, unit, repo, host, calls>>
    /\ IF retry.pc = "rejected"
       THEN /\ run' = Throw(run, retry.thrown.err)
            /\ pc' = "exit1"
            /\ retry' = RetryIdle
       ELSE \E units \in WorkUnitResponses, resolved \in RemoteResolves,
               gitOk \in BOOLEAN :
            LET r1 == [run EXCEPT !.requests = Requested(run, "detectWorkUnits")]
            IN  IF ~gitOk
                THEN /\ run' = Throw(run, ErrShell)
                     /\ pc' = "exit1"
                     /\ retry' = RetryIdle
                ELSE \E ci \in (IF resolved THEN CiStatuses ELSE {"unknown"}) :
                     /\ run' = [r1 EXCEPT
                           !.workUnits = AssignIds(units),
                           !.requests = IF resolved THEN @ \cup {"getWorkflowStatus"}
                                        ELSE @]
                     /\ pc' = "evaluate"
                     /\ retry' = DefaultRetry("evaluateReadiness")

ChosenBump_HigherTier(readiness, workUnits, commits) ==
    LET local == SuggestVersionBump(workUnits, commits)
    IN  IF readiness.suggestedBump = "none" \/ local = "major" THEN local
        ELSE IF local = "minor" /\ readiness.suggestedBump = "patch" THEN local
        ELSE readiness.suggestedBump

\* engine.ts:124-125: readiness.suggestedBump ?? suggestVersionBump(...)
ChosenBump(readiness, workUnits, commits) ==
    IF readiness.suggestedBump # "none"
    THEN readiness.suggestedBump
    ELSE SuggestVersionBump(workUnits, commits)

\* engine.ts:116-134: the score arrives; the suggested version
CmdEvaluated ==
    /\ pc = "evaluate"
    /\ RetryDone
    /\ retry' = RetryIdle
    /\ UNCHANGED <<invocations, unit, repo, host, calls>>
    /\ IF retry.pc = "rejected"
       THEN /\ run' = Throw(run, retry.thrown.err)
            /\ pc' = "exit1"
       ELSE \E readiness \in ReadinessResponses :
            LET suggestedBump == ChosenBump(readiness, run.workUnits, run.commits)
            IN  /\ run' = [run EXCEPT
                      !.readiness = Some(readiness),
                      !.suggestedVersion =
                          IF readiness.ready
                          THEN Some(BumpVersion(run.currentVersion, suggestedBump))
                          ELSE None,
                      !.requests = Requested(run, "evaluateReadiness"),
                      !.commits = <<>>]
                /\ pc' = "gate"

HasCompleteUnit_AnyUnit(workUnits) == Len(workUnits) > 0

\* changelog.ts:19-21: completeUnits.length > 0
HasCompleteUnit(workUnits) ==
    Len(SelectSeq(workUnits, LAMBDA u : u.status = "complete")) > 0

\* release.ts:30-46, engine.ts:136-145, changelog.ts:18-35: the readiness
\* gate, the version, and generateChangelog up to its narrative request
CmdGate ==
    /\ pc = "gate"
    /\ UNCHANGED <<invocations, unit, repo, host, calls>>
    /\ \E force \in BOOLEAN, gitOk \in BOOLEAN :
         LET version == IF IsSome(run.suggestedVersion)
                        THEN Get(run.suggestedVersion) ELSE run.currentVersion
             commits == repo.pending
             r1 == [run EXCEPT !.version = version, !.requests = {},
                               !.flags = [NoFlags EXCEPT !.force = force]]
         IN  IF ~Get(run.readiness).ready /\ ~force
             THEN /\ run' = run
                  /\ pc' = "exit1"
                  /\ retry' = RetryIdle
             ELSE IF ~gitOk
             THEN /\ run' = Throw(r1, ErrShell)
                  /\ pc' = "exit1"
                  /\ retry' = RetryIdle
             ELSE IF ~HasCompleteUnit(run.workUnits)
             THEN /\ run' = [r1 EXCEPT
                       !.changelog = GenerateMinimalChangelog(commits, version)]
                  /\ pc' = "confirm"
                  /\ retry' = RetryIdle
             ELSE /\ run' = r1
                  /\ pc' = "changelog"
                  /\ retry' = DefaultRetry("generate")

\* changelog.ts:26-34: the narrative arrives
CmdChangelog ==
    /\ pc = "changelog"
    /\ RetryDone
    /\ retry' = RetryIdle
    /\ UNCHANGED <<invocations, unit, repo, host, calls>>
    /\ IF retry.pc = "rejected"
       THEN /\ run' = Throw(run, retry.thrown.err)
            /\ pc' = "exit1"
       ELSE \E text \in NarrativeTexts :
            /\ run' = [run EXCEPT !.changelog = text]
            /\ pc' = "confirm"

Approves_AnyAnswer(answer) == TRUE

\* release.ts:66-67: confirm?.toLowerCase() === "y"
Approves(answer) == ToLowerCase(answer) = "y"

\* release.ts:48-70: the confirmation prompt.
CmdConfirm ==
    /\ pc = "confirm"
    /\ UNCHANGED <<invocations, unit, retry, repo, host, calls>>
    /\ \E mode \in {"auto", "confirm"}, ci \in BOOLEAN, answer \in Answers :
         LET asked == mode = "confirm" /\ ~ci
             r1 == [run EXCEPT !.flags.mode = mode, !.flags.ci = ci,
                               !.flags.answer = IF asked THEN answer ELSE "none"]
         IN  IF asked /\ ~Approves(answer)
             THEN /\ pc' = "exit0"
                  /\ run' = r1
             ELSE /\ pc' = "exec"
                  /\ run' = r1

(***************************************************************************)
(* engine.ts:147-203: executeRelease, one action per await.                *)
(***************************************************************************)
Call(op, tag, ok) == [op |-> op, tag |-> tag, ok |-> ok]

TagName_AlwaysPrefix(version) == "v" \o version

TagName(version) == IF StartsWith(version, "v") THEN version ELSE "v" \o version

ReleaseResult(version, changelog, tagCreated, url) ==
    [version |-> version, changelog |-> changelog, tagCreated |-> tagCreated,
     githubReleaseUrl |-> url]

ReleaseUrl(tag) == "https://github.com/org/proj/releases/tag/" \o tag

\* engine.ts:147-159.  ctx.github's token (github.ts:22-24) was fixed when
\* the engine was created; nothing before executeRelease depends on it, so
\* it is drawn here with the arguments of the call.
ExecEnter ==
    /\ pc = "exec"
    /\ UNCHANGED <<invocations, unit, retry, repo, host, calls>>
    /\ \E dryRun \in BOOLEAN, token \in BOOLEAN :
         LET r1 == [run EXCEPT !.dryRun = dryRun, !.token = token,
                               !.inExecute = TRUE, !.repoAtEntry = Some(repo),
                               !.workUnits = <<>>, !.readiness = None,
                               !.suggestedVersion = None, !.flags = NoFlags]
         IN  IF dryRun
             THEN /\ run' = [r1 EXCEPT !.result =
                        Some(ReleaseResult(run.version, run.changelog, FALSE, None))]
                  /\ pc' = "returned"
             ELSE /\ run' = r1
                  /\ pc' = "isClean"

IsClean_Always(r) == TRUE

\* git.ts:160-163: `git status --porcelain` prints nothing
IsClean(r) == r.clean

\* engine.ts:161-168.  cleanAtCheck remembers what the tree was when the
\* status command ran.
ExecIsClean ==
    /\ pc = "isClean"
    /\ UNCHANGED <<invocations, unit, retry, repo, host>>
    /\ \E gitOk \in BOOLEAN :
         LET r1 == [run EXCEPT !.cleanAtCheck = Some(repo.clean)]
         IN  /\ calls' = Append(calls, Call("isClean", "", gitOk))
             /\ IF ~gitOk
                THEN /\ run' = Throw(run, ErrShell)
                     /\ pc' = "exit1"
                ELSE IF ~IsClean(repo)
                THEN /\ run' = Throw(r1, ErrDirty)
                     /\ pc' = "exit1"
                ELSE /\ run' = [r1 EXCEPT !.tagName = TagName(run.version)]
                     /\ pc' = "createTag"

CreateTagOk_Overwrites(gitOk, r, name) == gitOk

\* git.ts:143-149: `git tag -a` refuses a name that exists
CreateTagOk(gitOk, r, name) == gitOk /\ ~HasTag(r, name)

\* engine.ts:169.  cleanAtTag remembers what the tree was when the tag was
\* created.
ExecCreateTag ==
    /\ pc = "createTag"
    /\ UNCHANGED <<invocations, unit, retry, host>>
    /\ \E gitOk \in BOOLEAN :
         LET ok == CreateTagOk(gitOk, repo, run.tagName)
         IN  /\ calls' = Append(calls, Call("createTag", run.tagName, ok))
             /\ IF ok
                THEN /\ repo' = [repo EXCEPT !.tags = Append(@, run.tagName),
                                             !.pending = <<>>]
                     /\ run' = [run EXCEPT !.cleanAtTag = Some(repo.clean)]
                     /\ pc' = "pushTag"
                ELSE /\ repo' = repo
                     /\ run' = Throw(run, ErrShell)
                     /\ pc' = "exit1"

\* engine.ts:170, git.ts:151-153
ExecPushTag ==
    /\ pc = "pushTag"
    /\ UNCHANGED <<invocations, unit, retry, host>>
    /\ \E ok \in BOOLEAN :
         /\ calls' = Append(calls, Call("pushTag", run.tagName, ok))
         /\ IF ok
            THEN /\ repo' = [repo EXCEPT !.pushed = @ \cup {run.tagName}]
                 /\ run' = run
                 /\ pc' = "publish"
            ELSE /\ repo' = repo
                 /\ run' = Throw(run, ErrShell)
                 /\ pc' = "exit1"

Returned(r, url) ==
    [r EXCEPT !.result = Some(ReleaseResult(r.version, r.changelog, TRUE, url))]

PublishEnabled_IgnoresSkip(skipGitHub, createRelease) == createRelease

\* engine.ts:175
PublishEnabled(skipGitHub, createRelease) == ~skipGitHub /\ createRelease

\* engine.ts:175-178, 194-202.  options.skipGitHub and
\* ctx.config.github.createRelease are first read here.
ExecResolveRepo ==
    /\ pc = "publish"
    /\ UNCHANGED <<invocations, unit, retry, repo, host, calls>>
    /\ \E skipGitHub \in BOOLEAN, createRelease \in BOOLEAN :
         LET r1 == [run EXCEPT !.skipGitHub = skipGitHub,
                               !.createRelease = createRelease]
         IN  IF PublishEnabled(skipGitHub, createRelease)
             THEN \E resolved \in RemoteResolutions :
                    IF IsSome(resolved)
                    THEN /\ run' = [r1 EXCEPT !.resolved = resolved]
                         /\ pc' = "probe"
                    ELSE /\ run' = Returned(r1, None)
                         /\ pc' = "returned"
             ELSE /\ run' = Returned(r1, None)
                  /\ pc' = "returned"

\* engine.ts:180, github.ts:163-170
ExecProbeCli ==
    /\ pc = "probe"
    /\ UNCHANGED <<invocations, unit, retry, repo, host, calls>>
    /\ \E available \in BOOLEAN :
         /\ run' = [run EXCEPT !.cliAvailable = Some(available)]
         /\ pc' = IF available THEN "cli" ELSE "api"

\* engine.ts:181-185, github.ts:172-194
ExecCreateReleaseWithCLI ==
    /\ pc = "cli"
    /\ UNCHANGED <<invocations, unit, retry, repo>>
    /\ \E out \in {Ok, Fail(ErrShell)} :
         /\ calls' = Append(calls, Call("createReleaseWithCLI", run.tagName, out.ok))
         /\ IF out.ok
            THEN /\ host' = host \cup {run.tagName}
                 /\ run' = Returned(run, Some(ReleaseUrl(run.tagName)))
                 /\ pc' = "returned"
            ELSE /\ host' = host
                 /\ run' = Throw(run, out.err)
                 /\ pc' = "exit1"

CreateReleaseOutcomes_NoCheck(token) == {Ok, Fail(ErrHost503), Fail(ErrHost422)}

\* github.ts:45-85: the token is required before the request is made; the
\* request succeeds or the host answers with a failure status
CreateReleaseOutcomes(token) ==
    IF token THEN {Ok, Fail(ErrHost503), Fail(ErrHost422)}
    ELSE {Fail(ErrNoToken)}

\* engine.ts:187-192
ExecCreateRelease ==
    /\ pc = "api"
    /\ UNCHANGED <<invocations, unit, retry, repo>>
    /\ \E out \in CreateReleaseOutcomes(run.token) :
         /\ calls' = Append(calls, Call("createRelease", run.tagName, out.ok))
         /\ IF out.ok
            THEN /\ host' = host \cup {run.tagName}
                 /\ run' = Returned(run, Some(ReleaseUrl(run.tagName)))
                 /\ pc' = "returned"
            ELSE /\ host' = host
                 /\ run' = Throw(run, out.err)
                 /\ pc' = "exit1"

\* release.ts:97-109: CHANGELOG.md is updated, or created with a header
WriteChangelog(r, changelog) ==
    [r EXCEPT
        !.changelogFile =
            IF IsSome(r.changelogFile)
            THEN Some(UpdateChangelogFile(Get(r.changelogFile), changelog))
            ELSE Some("# Changelog\n\n" \o changelog \o "\n"),
        !.clean = FALSE]

AfterRelease_Writes(r, dryRun, changelog) == WriteChangelog(r, changelog)

\* release.ts:82-109: a dry run returns before the file is touched
AfterRelease(r, dryRun, changelog) ==
    IF dryRun THEN r ELSE WriteChangelog(r, changelog)

\* release.ts:80-109: after executeRelease has returned
CmdAfterExec ==
    /\ pc = "returned"
    /\ pc' = "done"
    /\ UNCHANGED <<invocations, unit, retry, host, calls, run>>
    /\ repo' = AfterRelease(repo, run.dryRun, run.changelog)

(***************************************************************************)
(* Somebody else working on the same repository while executeRelease is    *)
(* between its entry and its push.                                         *)
(***************************************************************************)
ExternalWindow == {"isClean", "createTag", "pushTag"}

ExternalEdit ==
    /\ pc \in ExternalWindow
    /\ repo.external < MaxExternal
    /\ repo.clean
    /\ repo' = [repo EXCEPT !.clean = FALSE, !.external = @ + 1]
    /\ UNCHANGED <<invocations, unit, retry, pc, host, run, calls>>

ExternalCommit ==
    /\ pc \in ExternalWindow
    /\ repo.external < MaxExternal
    /\ repo' = [repo EXCEPT !.pending = Append(@, CommitFeat), !.clean = TRUE,
                            !.external = @ + 1]
    /\ UNCHANGED <<invocations, unit, retry, pc, host, run, calls>>

ExternalTag ==
    /\ pc \in ExternalWindow
    /\ repo.external < MaxExternal
    /\ \E name \in {"v2.0.0"} \cup (IF run.version = "" THEN {}
                                    ELSE {TagName(run.version)}) :
         /\ ~HasTag(repo, name)
         /\ repo' = [repo EXCEPT !.tags = Append(@, name), !.pending = <<>>,
                                 !.external = @ + 1]
    /\ UNCHANGED <<invocations, unit, retry, pc, host, run, calls>>

Init ==
    /\ retry = RetryIdle
    /\ pc = "off"
    /\ repo \in InitRepos
    /\ host = {}
    /\ run = RunInit(0)
    /\ calls = <<>>
    /\ invocations = <<>>
    /\ unit = NoUnit

Next ==
    \/ CmdStart \/ CmdDetected \/ CmdEvaluated \/ CmdGate \/ CmdChangelog
    \/ CmdConfirm \/ CmdAfterExec
    \/ RetryAttempt \/ RetryWake
    \/ ExecEnter \/ ExecIsClean \/ ExecCreateTag \/ ExecPushTag
    \/ ExecResolveRepo \/ ExecProbeCli
    \/ ExecCreateReleaseWithCLI \/ ExecCreateRelease
    \/ ExternalEdit \/ ExternalCommit \/ ExternalTag

Spec == Init /\ [][Next]_vars

(***************************************************************************)
(* withRetry on its own: any options, any operation.                       *)
(***************************************************************************)
RetryCounts == (-1 .. MaxRetriesOpt) \cup {DefaultMaxRetries}

DelayOptions == { <<DefaultInitialDelayMs, DefaultMaxDelayMs>>, <<10, 50>> }

PipeIdle ==
    /\ pc = "off"
    /\ repo = [tags |-> <<>>, pending |-> <<>>, clean |-> TRUE,
               changelogFile |-> None, pushed |-> {}, external |-> 0]
    /\ host = {}
    /\ run = RunInit(0)
    /\ calls = <<>>

InitRetry ==
    /\ retry = RetryIdle
    /\ PipeIdle
    /\ invocations = <<>>
    /\ unit = NoUnit

\* a caller invokes withRetry(fn, options)
RetryCall ==
    /\ retry.pc = "idle"
    /\ \E m \in RetryCounts, p \in {"default", "always"}, d \in DelayOptions :
         retry' = WithRetryEnter("generic", m, p, d[1], d[2])
    /\ UNCHANGED pipeVars

NextRetry == RetryCall \/ RetryAttempt \/ RetryWake

SpecRetry == InitRetry /\ [][NextRetry]_vars

(***************************************************************************)
(* Claims about withRetry (checked under SpecRetry).                       *)
(***************************************************************************)
\* invocation i of the operation failed with an error the predicate retries
FailedRetryable(i) ==
    ~retry.log[i].ok /\ ShouldRetry(retry.pred, retry.log[i].err)

AllFailedRetryable(n) == \A i \in 1..n : FailedRetryable(i)

\* C7: with maxRetries N >= 1, an operation that fails k < N times with
\* retryable errors and then succeeds is invoked exactly k+1 times and
\* withRetry resolves with the value of that last invocation; fewer than N
\* retryable failures never end the invocation; an operation whose first
\* failure is not retryable is invoked exactly once and that error is
\* re-raised without any backoff sleep.
C7_AttemptCounting ==
    (retry.site = "generic" /\ retry.maxRetries >= 1) =>
        LET n == Len(retry.log) IN
        /\ \A k \in 0..(retry.maxRetries - 1) :
              (n >= k + 1 /\ AllFailedRetryable(k) /\ retry.log[k + 1].ok)
                 => (n = k + 1 /\ retry.pc = "resolved" /\ retry.value = k + 1)
        /\ (n < retry.maxRetries /\ AllFailedRetryable(n))
              => retry.pc \in {"call", "sleep"}
        /\ (n >= 1 /\ ~retry.log[1].ok
                   /\ ~ShouldRetry(retry.pred, retry.log[1].err))
              => /\ n = 1
                 /\ retry.pc = "rejected"
                 /\ retry.thrown = [err |-> retry.log[1].err, at |-> 1]
                 /\ retry.sleeps = 0

\* two retryable failures, then success, under the default maxRetries
C7_Witness ==
    /\ retry.site = "generic"
    /\ retry.maxRetries = DefaultMaxRetries
    /\ retry.pred = "default"
    /\ retry.pc = "resolved"
    /\ Len(retry.log) = 3
    /\ retry.log[1].err = ErrRateLimit
    /\ retry.log[2].err = ErrConnReset
    /\ retry.value = 3

\* C8: with maxRetries N >= 1, if every attempt fails with a retryable
\* error the operation is invoked exactly N times (never more), withRetry
\* then rejects with the error thrown by invocation N, and it has slept
\* N-1 times: not after the final failure.
C8_Exhaustion ==
    (retry.site = "generic" /\ retry.maxRetries >= 1) =>
        LET n == Len(retry.log) IN
        /\ n <= retry.maxRetries
        /\ (n = retry.maxRetries /\ AllFailedRetryable(n))
              => retry.pc = "rejected"
        /\ (retry.pc = "rejected" /\ AllFailedRetryable(n))
              => /\ n = retry.maxRetries
                 /\ retry.thrown = [err |-> retry.log[n].err, at |-> n]
                 /\ retry.sleeps = n - 1

\* three retryable failures, the last one different from the earlier ones
C8_Witness ==
    /\ retry.site = "generic"
    /\ retry.maxRetries = 3
    /\ retry.pc = "rejected"
    /\ Len(retry.log) = 3
    /\ AllFailedRetryable(3)
    /\ retry.log[1].err = ErrRateLimit
    /\ retry.log[3].err = ErrConnReset
    /\ retry.thrown.err = ErrConnReset

(***************************************************************************)
(* Claims about executeRelease (specification Spec).  `calls` is the log   *)
(* of the git and host calls of the current run of the command.            *)
(***************************************************************************)
ReleaseOps == {"createRelease", "createReleaseWithCLI"}

CallsOf(ops) == { i \in 1..Len(calls) : calls[i].op \in ops }

\* the tag name the specification prescribes for a version
IsTagFor(t, version) ==
    \/ SubSeq(version, 1, 1) = "v" /\ t = version
    \/ SubSeq(version, 1, 1) # "v" /\ t = "v" \o version

\* C1: in a non-dry-run executeRelease the calls made so far are a prefix
\* of: cleanliness check, createTag(t), pushTag(t), at most one release
\* creation for t, with t the version prefixed with "v" only when it lacks
\* it; a call is made only when every earlier one succeeded (and the tree
\* was found clean).
C1_CallOrder ==
    (run.inExecute /\ ~run.dryRun) =>
        /\ Len(calls) <= 4
        /\ \A i \in 1..Len(calls) :
             /\ i = 1 => calls[i].op = "isClean"
             /\ i = 2 => calls[i].op = "createTag"
             /\ i = 3 => calls[i].op = "pushTag"
             /\ i = 4 => calls[i].op \in ReleaseOps
             /\ i > 1 => /\ calls[i - 1].ok
                         /\ run.cleanAtCheck = Some(TRUE)
                         /\ IsTagFor(calls[i].tag, run.version)

C1_Witness ==
    /\ run.inExecute /\ ~run.dryRun
    /\ Len(calls) = 4
    /\ calls[4].ok
    /\ SubSeq(run.version, 1, 1) = "v"
    /\ pc = "returned"

MutatingOps == {"createTag", "pushTag"} \cup ReleaseOps

\* C2: when the working tree is dirty at the cleanliness check, a
\* non-dry-run executeRelease ends with the dirty-tree error, returns no
\* result, and has made no createTag, pushTag or release-creation call.
C2_DirtyTreeFails ==
    (run.inExecute /\ ~run.dryRun /\ run.cleanAtCheck = Some(FALSE)) =>
        /\ pc = "exit1"
        /\ run.error = Some(ErrDirty)
        /\ run.result = None
        /\ CallsOf(MutatingOps) = {}

C2_Witness ==
    /\ run.inExecute /\ ~run.dryRun
    /\ run.cleanAtCheck = Some(FALSE)
    /\ calls = <<Call("isClean", "", TRUE)>>
    /\ pc = "exit1"

\* C3: with the dry-run flag set, executeRelease makes no git or host call
\* and leaves the repository as it found it, whatever the state of the
\* working tree; it returns the given version and changelog with
\* tagCreated = FALSE and no release URL, and the release command does not
\* write CHANGELOG.md afterwards.
C3_DryRunMutatesNothing ==
    (run.inExecute /\ run.dryRun) =>
        /\ calls = <<>>
        /\ Some(repo) = run.repoAtEntry
        /\ run.error = None
        /\ run.result =
             Some([version |-> run.version, changelog |-> run.changelog,
                   tagCreated |-> FALSE, githubReleaseUrl |-> None])
        /\ pc \in {"returned", "done"}

C3_Witness ==
    /\ run.inExecute /\ run.dryRun
    /\ pc = "done"
    /\ ~repo.clean
    /\ run.version # ""
    /\ run.changelog # ""

PushSucceeded ==
    /\ Len(calls) >= 3
    /\ calls[3] = Call("pushTag", run.tagName, TRUE)

\* the publication step has read its flags and the remote URL
PublishDecided == PushSucceeded /\ pc # "publish"

NoPublication ==
    run.skipGitHub \/ ~run.createRelease \/ run.resolved = None

\* C4: after a successful push executeRelease makes at most one
\* release-creation call: none when skipGitHub is set, createRelease is
\* false or the remote does not resolve (each ends successfully with
\* tagCreated = TRUE and no URL); the CLI call when the probe succeeds; the
\* REST call only when the probe fails; never both.
C4_OneReleaseCall ==
    (run.inExecute /\ ~run.dryRun) =>
        /\ Cardinality(CallsOf(ReleaseOps)) <= 1
        /\ \A i \in CallsOf(ReleaseOps) :
             /\ PushSucceeded /\ i = 4
             /\ ~NoPublication
             /\ calls[i].op = "createReleaseWithCLI" <=> run.cliAvailable = Some(TRUE)
             /\ calls[i].op = "createRelease" <=> run.cliAvailable = Some(FALSE)
        /\ (PublishDecided /\ NoPublication) =>
             /\ CallsOf(ReleaseOps) = {}
             /\ run.cliAvailable = None
             /\ run.error = None
             /\ run.result =
                  Some([version |-> run.version, changelog |-> run.changelog,
                        tagCreated |-> TRUE, githubReleaseUrl |-> None])
             /\ pc \in {"returned", "done"}
        /\ (PublishDecided /\ ~NoPublication /\ pc \notin {"probe", "cli", "api"}) =>
             Cardinality(CallsOf(ReleaseOps)) = 1

C4_Witness ==
    /\ run.inExecute /\ ~run.dryRun
    /\ run.cliAvailable = Some(FALSE)
    /\ Len(calls) = 4
    /\ calls[4] = Call("createRelease", run.tagName, TRUE)
    /\ pc = "done"

TagCreatedAndPushed ==
    /\ Len(calls) >= 3
    /\ calls[2] = Call("createTag", run.tagName, TRUE)
    /\ calls[3] = Call("pushTag", run.tagName, TRUE)
    /\ HasTag(repo, run.tagName)
    /\ run.tagName \in repo.pushed

\* C5: the missing-token error is raised only by the REST release creation,
\* after the tag has been created and pushed (both remain); with no token,
\* the CLI unavailable, publication enabled and the repository resolved it
\* is raised; with the CLI available, or publication skipped, disabled or
\* unresolved, a missing token causes no error.
C5_MissingTokenOnlyAtEnd ==
    (run.inExecute /\ ~run.dryRun) =>
        /\ run.error = Some(ErrNoToken) =>
             /\ ~run.token
             /\ ~NoPublication /\ run.cliAvailable = Some(FALSE)
             /\ TagCreatedAndPushed
             /\ Len(calls) = 4
             /\ calls[4] = Call("createRelease", run.tagName, FALSE)
             /\ run.result = None
             /\ pc = "exit1"
        /\ (~run.token /\ PublishDecided /\ ~NoPublication
                /\ run.cliAvailable = Some(FALSE) /\ pc # "api") =>
             run.error = Some(ErrNoToken)
        /\ (~run.token /\ PublishDecided /\ NoPublication) =>
             run.error = None
        /\ (~run.token /\ PublishDecided /\ run.cliAvailable = Some(TRUE)) =>
             run.error \in {None, Some(ErrShell)}

C5_Witness ==
    /\ run.inExecute /\ ~run.dryRun
    /\ ~run.token
    /\ run.error = Some(ErrNoToken)
    /\ TagCreatedAndPushed
    /\ pc = "exit1"

\* the tag of the version being released existed when executeRelease began
TagExistedAtEntry ==
    /\ IsSome(run.repoAtEntry)
    /\ \E i \in 1..Len(Get(run.repoAtEntry).tags) :
         IsTagFor(Get(run.repoAtEntry).tags[i], run.version)

\* C6: a non-dry-run executeRelease for a version whose tag already exists,
\* in whichever run of the command, gets no further than the tag creation:
\* it ends with an error, returns no result (so never tagCreated = TRUE),
\* makes no pushTag and no release-creation call, and when the tree was
\* clean its createTag call is made and fails; the tag is not duplicated.
C6_ExistingTagFails ==
    (run.inExecute /\ ~run.dryRun /\ TagExistedAtEntry) =>
        /\ run.result = None
        /\ CallsOf({"pushTag"} \cup ReleaseOps) = {}
        /\ pc \in {"isClean", "createTag", "exit1"}
        /\ pc = "exit1" => IsSome(run.error)
        /\ Len(calls) >= 2 =>
             /\ calls[2] = Call("createTag", run.tagName, FALSE)
             /\ IsTagFor(run.tagName, run.version)
             /\ run.error = Some(ErrShell)
             /\ pc = "exit1"
        /\ Cardinality({ i \in 1..Len(repo.tags) :
                           IsTagFor(repo.tags[i], run.version) }) = 1

C6_Witness ==
    /\ run.inExecute /\ ~run.dryRun /\ TagExistedAtEntry
    /\ run.n = 2
    /\ run.tagName = "v1.0.1"
    /\ Len(calls) = 2
    /\ ~calls[2].ok
    /\ pc = "exit1"

(***************************************************************************)
(* Claims about which remote calls go through withRetry (Spec).            *)
(***************************************************************************)
AiSteps == {"detect", "evaluate", "changelog"}

SiteOfStep(step) ==
    CASE step = "detect" -> "detectWorkUnits"
      [] step = "evaluate" -> "evaluateReadiness"
      [] OTHER -> "generate"

\* the three AI requests run inside withRetry with the default options, and
\* a retryable failure before the last attempt is followed by a sleep and
\* another attempt
AiCallsRetried ==
    pc \in AiSteps =>
        /\ retry.site = SiteOfStep(pc)
        /\ retry.maxRetries = DefaultMaxRetries
        /\ retry.pred = "default"
        /\ LET n == Len(retry.log) IN
           (n >= 1 /\ n < DefaultMaxRetries /\ ~retry.log[n].ok) =>
              \/ retry.pc \in {"sleep", "call"}
              \/ retry.pc = "rejected" /\ ~IsRetryableError(retry.log[n].err)

ReleaseCreationFailedRetryably ==
    /\ run.inExecute /\ ~run.dryRun
    /\ CallsOf(ReleaseOps) # {}
    /\ ~calls[Len(calls)].ok
    /\ IsSome(run.error)
    /\ IsRetryableError(Get(run.error))

SchemaSites == {"detectWorkUnits", "evaluateReadiness"}

\* C10: a structured response that violates its schema is never retried,
\* whatever the text of the validation error: the request that produced it
\* is the last one, withRetry rejects with that error, and no backoff sleep
\* follows it.
C10_ValidationNeverRetried ==
    retry.site \in SchemaSites =>
        \A i \in 1..Len(retry.log) :
            (~retry.log[i].ok /\ retry.log[i].err.class = "validation") =>
                /\ Len(retry.log) = i
                /\ retry.pc = "rejected"
                /\ retry.thrown = [err |-> retry.log[i].err, at |-> i]
                /\ retry.sleeps = i - 1

(***************************************************************************)
(* Two withRetry invocations running concurrently: their awaits (the      *)
(* operation, the backoff sleep) interleave in any order.                  *)
(***************************************************************************)
Callers == 1..2

AttemptOf_Shared(invs, i) ==
    IF invs[1].attempt > invs[2].attempt THEN invs[1].attempt ELSE invs[2].attempt

\* utils.ts:83: `let attempt` is a local of the invocation
AttemptOf(invs, i) == invs[i].attempt

\* invocation i as its own code sees it
Own(i) == [invocations[i] EXCEPT !.attempt = AttemptOf(invocations, i)]

InitPair ==
    /\ retry = RetryIdle
    /\ PipeIdle
    /\ invocations = [i \in Callers |-> RetryIdle]
    /\ unit = NoUnit

\* utils.ts:78-83: opts is a fresh object spread from DEFAULT_OPTIONS
PairCall(i) ==
    /\ invocations[i].pc = "idle"
    /\ \E m \in 1..MaxRetriesOpt, p \in {"default", "always"} :
         invocations' = [invocations EXCEPT ![i] =
             WithRetryEnter("concurrent", m, p,
                            DefaultInitialDelayMs, DefaultMaxDelayMs)]
    /\ UNCHANGED <<retry, pc, repo, host, run, calls, unit>>

PairAttempt(i) ==
    /\ invocations[i].pc = "call"
    /\ \E r \in AttemptResults(Own(i)) :
         invocations' = [invocations EXCEPT ![i] = r]
    /\ UNCHANGED <<retry, pc, repo, host, run, calls, unit>>

PairWake(i) ==
    /\ invocations[i].pc = "sleep"
    /\ invocations' = [invocations EXCEPT ![i] = Woken(Own(i))]
    /\ UNCHANGED <<retry, pc, repo, host, run, calls, unit>>

NextPair ==
    \/ \E i \in Callers : PairCall(i)
    \/ \E i \in Callers : PairAttempt(i)
    \/ \E i \in Callers : PairWake(i)

SpecPair == InitPair /\ [][NextPair]_vars

\* what an invocation that runs alone looks like after the outcomes in its
\* log: every outcome but the last is a retried failure, and the last one
\* decides where it stands
RunsAsAlone(r) ==
    LET n == Len(r.log)
        Retried(k) == ~r.log[k].ok /\ ShouldRetry(r.pred, r.log[k].err)
    IN  \/ r.pc = "idle"
        \/ /\ n <= r.maxRetries
           /\ \A k \in 1..(n - 1) : Retried(k)
           /\ r.pc = "call" =>
                /\ n < r.maxRetries /\ (n = 0 \/ Retried(n))
                /\ r.attempt = n + 1 /\ r.sleeps = n
           /\ r.pc = "sleep" =>
                /\ n >= 1 /\ n < r.maxRetries /\ Retried(n)
                /\ r.attempt = n /\ r.sleeps = n
           /\ r.pc = "resolved" =>
                /\ n >= 1 /\ r.log[n].ok
                /\ r.value = n /\ r.sleeps = n - 1
           /\ r.pc = "rejected" =>
                /\ n >= 1 /\ ~r.log[n].ok
                /\ n = r.maxRetries \/ ~ShouldRetry(r.pred, r.log[n].err)
                /\ r.thrown = [err |-> r.log[n].err, at |-> n]
                /\ r.sleeps = n - 1

\* C11: however the attempts and sleeps of two concurrent withRetry
\* invocations interleave, each counts its own attempts: the number of
\* attempts and the outcome of each are those of an invocation running
\* alone with the same options and the same outcomes of its operation.
C11_NoSharedState ==
    \A i \in DOMAIN invocations : RunsAsAlone(invocations[i])

\* both are in their backoff sleep, one after its second failure and the
\* other after its first
C11_Witness ==
    /\ DOMAIN invocations = Callers
    /\ invocations[1].pc = "sleep" /\ invocations[1].attempt = 2
    /\ invocations[2].pc = "sleep" /\ invocations[2].attempt = 1
    /\ invocations[2].maxRetries = 2

(***************************************************************************)
(* Analyzer.evaluateReadiness called on its own (ai/src/analyzer.ts:52-80) *)
(***************************************************************************)
CommitSeqs == { <<>>, <<CommitFeat>>, <<CommitFix, CommitDocs>> }

WorkUnitSeqs == { AssignIds(units) : units \in WorkUnitResponses }

\* analyzer.ts:58
ShortCircuits(commits, workUnits) == Len(commits) = 0 /\ Len(workUnits) = 0

NoChangesScore_IgnoresCi(ciPassing) == Score(0, 0, 0, 0, 10, FALSE, "none")

\* analyzer.ts:59-67
NoChangesScore(ciPassing) ==
    Score(0, 0, 0, 0, IF ciPassing THEN 10 ELSE 0, FALSE, "none")

InitScorer ==
    /\ retry = RetryIdle
    /\ PipeIdle
    /\ invocations = <<>>
    /\ unit = NoUnit

\* analyzer.ts:52-77: the call, up to its return or its first await
ScorerCall ==
    /\ unit = NoUnit
    /\ \E commits \in CommitSeqs, workUnits \in WorkUnitSeqs, ciPassing \in BOOLEAN :
         LET u == [fn |-> "evaluateReadiness", commits |-> commits,
                   workUnits |-> workUnits, ciPassing |-> ciPassing,
                   state |-> "pending", result |-> None, error |-> None]
         IN  IF ShortCircuits(commits, workUnits)
             THEN /\ unit' = [u EXCEPT !.state = "returned",
                                       !.result = Some(NoChangesScore(ciPassing))]
                  /\ retry' = retry
             ELSE /\ unit' = u
                  /\ retry' = DefaultRetry("evaluateReadiness")
    /\ UNCHANGED <<pc, repo, host, run, calls, invocations>>

\* analyzer.ts:70-79: withRetry has ended; the validated object is returned
ScorerReturn ==
    /\ unit # NoUnit
    /\ unit.state = "pending"
    /\ RetryDone
    /\ IF retry.pc = "rejected"
       THEN unit' = [unit EXCEPT !.state = "threw",
                                 !.error = Some(retry.thrown.err)]
       ELSE \E readiness \in ReadinessResponses :
              unit' = [unit EXCEPT !.state = "returned",
                                   !.result = Some(readiness)]
    /\ UNCHANGED <<retry, pc, repo, host, run, calls, invocations>>

NextScorer == ScorerCall \/ RetryAttempt \/ RetryWake \/ ScorerReturn

SpecScorer == InitScorer /\ [][NextScorer]_vars

ScorerCalled == unit # NoUnit /\ unit.fn = "evaluateReadiness"

\* the score of the short circuit, field by field
IsNoChangesResult ==
    /\ unit.state = "returned"
    /\ IsSome(unit.result)
    /\ ~Get(unit.result).ready
    /\ Get(unit.result).stability = (IF unit.ciPassing THEN 10 ELSE 0)
    /\ Get(unit.result).total = 0
    /\ Get(unit.result).completeness = 0
    /\ Get(unit.result).value = 0
    /\ Get(unit.result).coherence = 0
    /\ retry.pc = "idle" /\ Len(retry.log) = 0

\* C12 as stated: every call of evaluateReadiness with zero commits returns
\* ready = FALSE, stability 10 when CI passes and 0 when not, every other
\* score 0, and issues no remote request.
C12_Original ==
    (ScorerCalled /\ Len(unit.commits) = 0) => IsNoChangesResult

\* C12 amended: every call of evaluateReadiness with zero commits and zero
\* work units returns that score and issues no remote request; a call with
\* zero commits and some work unit issues the scoring request.
C12_ShortCircuit ==
    /\ (ScorerCalled /\ Len(unit.commits) = 0 /\ Len(unit.workUnits) = 0)
          => IsNoChangesResult
    /\ (ScorerCalled /\ Len(unit.commits) = 0 /\ Len(unit.workUnits) > 0)
          => /\ retry.site = "evaluateReadiness"
             /\ unit.state = "returned" => Len(retry.log) >= 1

C12_Witness ==
    /\ ScorerCalled
    /\ Len(unit.commits) = 0 /\ Len(unit.workUnits) = 0
    /\ ~unit.ciPassing
    /\ unit.state = "returned"

\* ReadinessScoreSchema, core/src/analyzer.ts:22-27, and the sum
SumOfParts(score) ==
    score.completeness + score.value + score.coherence + score.stability

WithinBounds(score) ==
    /\ score.total \in 0..100
    /\ score.completeness \in 0..40
    /\ score.value \in 0..30
    /\ score.coherence \in 0..20
    /\ score.stability \in 0..10

\* C14: every ReadinessScore evaluateReadiness returns, from its short
\* circuit or from a schema-conforming response, has total = completeness +
\* value + coherence + stability, with every sub-score inside its bound.
C14_TotalIsSum ==
    (ScorerCalled /\ unit.state = "returned") =>
        /\ Get(unit.result).total = SumOfParts(Get(unit.result))
        /\ WithinBounds(Get(unit.result))

(***************************************************************************)
(* Claims about the AnalysisResult (Spec).  analyze has returned when the  *)
(* command stands at its readiness gate.                                   *)
(***************************************************************************)
Analysed == pc = "gate" /\ IsSome(run.readiness)

LatestTagName ==
    IF Len(repo.tags) = 0 THEN "0.0.0" ELSE repo.tags[Len(repo.tags)]

\* C13: with zero commits since the latest tag, analyze returns no work
\* units, total 0, ready = FALSE, suggestedVersion null and currentVersion
\* the latest tag name (or "0.0.0"); it issues no AI request and no CI
\* status request: the classification and scoring steps are not entered.
C13_ZeroCommits ==
    /\ (Analysed /\ Len(repo.pending) = 0) =>
          /\ run.workUnits = <<>>
          /\ Get(run.readiness).total = 0
          /\ ~Get(run.readiness).ready
          /\ run.suggestedVersion = None
          /\ run.currentVersion = LatestTagName
          /\ run.requests = {}
          /\ retry.pc = "idle" /\ Len(retry.log) = 0
    /\ pc \in {"detect", "evaluate"} => Len(repo.pending) > 0

C13_Witness ==
    /\ Analysed
    /\ Len(repo.pending) = 0
    /\ run.currentVersion = "v1.0.0"

\* config.thresholds.release
ReleaseThreshold == 70

\* C15: in every AnalysisResult, ready is true exactly when total is at
\* least the configured release threshold.
C15_ReadyIffThreshold ==
    Analysed =>
        (Get(run.readiness).ready <=> Get(run.readiness).total >= ReleaseThreshold)

\* C16: in every AnalysisResult suggestedVersion is null exactly when ready
\* is false; when ready it is bumpVersion(currentVersion, b), b being the
\* scorer's suggestedBump when it gave one and the local heuristic's result
\* only when it gave none.
C16_SuggestedVersion ==
    Analysed =>
        LET readiness == Get(run.readiness)
            b == IF readiness.suggestedBump \in {"major", "minor", "patch"}
                 THEN readiness.suggestedBump
                 ELSE SuggestVersionBump(run.workUnits, repo.pending)
        IN  /\ run.suggestedVersion = None <=> ~readiness.ready
            /\ readiness.ready =>
                 run.suggestedVersion = Some(BumpVersion(run.currentVersion, b))

\* the scorer suggests patch where the heuristic would say minor
C16_Witness ==
    /\ Analysed
    /\ Get(run.readiness).ready
    /\ Get(run.readiness).suggestedBump = "patch"
    /\ SuggestVersionBump(run.workUnits, repo.pending) = "minor"
    /\ run.suggestedVersion = Some("0.0.1")

(***************************************************************************)
(* The local functions called on their own, on arguments drawn from small  *)
(* sets.                                                                   *)
(***************************************************************************)
MaxCommits == 2

\* sequences over S of length at most n
RECURSIVE SeqsUpTo(_, _)
SeqsUpTo(S, n) ==
    IF n = 0 THEN { <<>> }
    ELSE LET shorter == SeqsUpTo(S, n - 1)
         IN  shorter \cup { Append(q, x) : q \in shorter, x \in S }

\* Commits with what their author meant: `marker` says how the commit
\* announces a breaking change, `kind` its conventional-commit type.
MarkedCommits ==
    { [message |-> "feat: add X", body |-> "", marker |-> "none", kind |-> "feat"],
      [message |-> "fix: Y", body |-> "", marker |-> "none", kind |-> "fix"],
      [message |-> "refactor: BREAKING rename", body |-> "",
       marker |-> "keyword", kind |-> "refactor"],
      [message |-> "!: breaking change", body |-> "",
       marker |-> "leading bang", kind |-> "none"],
      [message |-> "feat!: drop Y", body |-> "",
       marker |-> "bang before separator", kind |-> "feat"],
      [message |-> "fix: Y", body |-> "BREAKING CHANGE: Y returns null",
       marker |-> "footer", kind |-> "fix"] }

InitUnit ==
    /\ retry = RetryIdle
    /\ PipeIdle
    /\ invocations = <<>>
    /\ unit = NoUnit

\* analyzer.ts:82-99
CallSuggestVersionBump ==
    /\ unit = NoUnit
    /\ \E workUnits \in WorkUnitSeqs, commits \in SeqsUpTo(MarkedCommits, MaxCommits) :
         unit' = [fn |-> "suggestVersionBump", workUnits |-> workUnits,
                  commits |-> commits,
                  result |-> SuggestVersionBump(workUnits, commits)]
    /\ UNCHANGED <<retry, pc, repo, host, run, calls, invocations>>

\* decimal numerals of the version parts tried
Numeral(n) ==
    CASE n = 0 -> "0" [] n = 1 -> "1" [] n = 2 -> "2" [] n = 9 -> "9"
      [] n = 10 -> "10" [] n = 12 -> "12" [] n = 13 -> "13"

VersionParts == {0, 9, 12}

\* Version strings with the numbers X.Y.Z they stand for and whether they
\* begin with "v": well-formed ones with and without a label, and
\* malformed ones (0.0.0).
VersionInputs ==
    { [text |-> pre \o Numeral(x) \o "." \o Numeral(y) \o "." \o Numeral(z) \o label,
       x |-> x, y |-> y, z |-> z, v |-> (pre = "v")] :
         pre \in {"", "v"}, x \in VersionParts, y \in VersionParts,
         z \in VersionParts, label \in {"", "-beta.1", ".4", "rc"} }
    \cup
    { [text |-> "01.09.0012", x |-> 1, y |-> 9, z |-> 12, v |-> FALSE] }
    \cup
    { [text |-> t, x |-> 0, y |-> 0, z |-> 0, v |-> FALSE] :
         t \in {"", "1.2", "latest", "1.2.x", "V1.2.3", " 1.2.3", "1..2.3", "-1.2.3"} }
    \cup
    { [text |-> t, x |-> 0, y |-> 0, z |-> 0, v |-> TRUE] :
         t \in {"v", "vv1.2.3", "v1.2", "version 1.2.3"} }

\* core/src/analyzer.ts:54-66
CallBumpVersion ==
    /\ unit = NoUnit
    /\ \E version \in VersionInputs, bump \in {"major", "minor", "patch"} :
         unit' = [fn |-> "bumpVersion", version |-> version, bump |-> bump,
                  parsed |-> ParseVersion(version.text),
                  result |-> BumpVersion(version.text, bump)]
    /\ UNCHANGED <<retry, pc, repo, host, run, calls, invocations>>

MaxUnits == 2

\* work units of every status of the schema, core/src/analyzer.ts:5
StatusUnits ==
    { [status |-> "complete", value |-> "high"],
      [status |-> "in_progress", value |-> "low"],
      [status |-> "abandoned", value |-> "low"] }

\* changelog.ts:18-24: generate(workUnits, commits, version) up to the
\* fallback return or the start of the narrative request
CallGenerate ==
    /\ unit = NoUnit
    /\ UNCHANGED <<pc, repo, host, run, calls, invocations>>
    /\ \E workUnits \in SeqsUpTo(StatusUnits, MaxUnits), commits \in CommitSeqs,
          version \in {"1.1.0"} :
         LET u == [fn |-> "generate", workUnits |-> workUnits,
                   commits |-> commits, version |-> version,
                   state |-> "pending", requests |-> 0, result |-> "",
                   error |-> UndefinedValue]
         IN  IF ~HasCompleteUnit(workUnits)
             THEN /\ unit' = [u EXCEPT
                       !.state = "returned",
                       !.result = GenerateMinimalChangelog(commits, version)]
                  /\ retry' = retry
             ELSE /\ unit' = u
                  /\ retry' = DefaultRetry("generate")

\* changelog.ts:26-34: withRetry settles; its text is returned, its error
\* propagates
GenerateReturn ==
    /\ unit.fn = "generate"
    /\ unit.state = "pending"
    /\ RetryDone
    /\ retry' = RetryIdle
    /\ UNCHANGED <<pc, repo, host, run, calls, invocations>>
    /\ IF retry.pc = "rejected"
       THEN unit' = [unit EXCEPT !.state = "threw",
                                 !.requests = Len(retry.log),
                                 !.error = retry.thrown.err]
       ELSE \E text \in NarrativeTexts :
              unit' = [unit EXCEPT !.state = "returned",
                                   !.requests = Len(retry.log),
                                   !.result = text]

\* Commits with the conventional-commit prefix their subject begins with
\* (`prefix`), as their author wrote it.
PrefixedCommits ==
    { [message |-> "feat: add X", body |-> "", prefix |-> "feat"],
      [message |-> "feat(ui): add W", body |-> "", prefix |-> "feat"],
      [message |-> "fix: Y", body |-> "", prefix |-> "fix"],
      [message |-> "docs: fix typo in feat list", body |-> "", prefix |-> "none"],
      [message |-> "Fix: Z", body |-> "", prefix |-> "none"] }

\* changelog.ts:37-69, reached from generate when no work unit is complete
CallMinimalChangelog ==
    /\ unit = NoUnit
    /\ \E commits \in SeqsUpTo(PrefixedCommits, MaxCommits),
          version \in {"1.1.0", "v2.0.0"} :
         unit' = [fn |-> "generateMinimalChangelog", commits |-> commits,
                  version |-> version,
                  result |-> GenerateMinimalChangelog(commits, version)]
    /\ UNCHANGED <<retry, pc, repo, host, run, calls, invocations>>

\* Texts of CHANGELOG.md with what they hold: `header` says whether the text
\* begins with a "# Changelog" header line.
ExistingTexts ==
    { [text |-> "", header |-> FALSE],
      [text |-> "## 0.9.0\n\nOld content", header |-> FALSE],
      [text |-> "#Changelog\n\n## 0.9.0\n", header |-> FALSE],
      [text |-> "Notes\n# Changelog\n\n## 0.9.0\n", header |-> FALSE],
      [text |-> "# Changelog\n\n## 0.9.0\n\nOld content", header |-> TRUE],
      [text |-> "# changelog\n## 0.9.0", header |-> TRUE],
      [text |-> "# CHANGELOG   \n\n## 0.9.0\n", header |-> TRUE],
      [text |-> "# Changelog\n", header |-> TRUE],
      [text |-> "# Changelog", header |-> TRUE] }

NewEntries == { "## 1.0.0\n\nNew content", "## 1.0.0 - 2026-01-01\n" }

\* changelog.ts:71-82
CallUpdateChangelogFile ==
    /\ unit = NoUnit
    /\ \E existing \in ExistingTexts, newEntry \in NewEntries :
         unit' = [fn |-> "updateChangelogFile", existing |-> existing,
                  newEntry |-> newEntry,
                  result |-> UpdateChangelogFile(existing.text, newEntry)]
    /\ UNCHANGED <<retry, pc, repo, host, run, calls, invocations>>

\* Date values of the runtime: a Date with a time, the Invalid Date (a Date
\* whose time is NaN), and undefined.
DateAt(t) == [isDate |-> TRUE, valid |-> TRUE, at |-> t]
InvalidDate == [isDate |-> TRUE, valid |-> FALSE, at |-> "NaN"]
NowDate == DateAt("now")
UndefinedDate == [isDate |-> FALSE, valid |-> FALSE, at |-> "undefined"]

\* the date-only form YYYY-MM-DD of the date-time string format
IsIsoDate(s) ==
    /\ Len(s) = 10
    /\ DigitRun(s) = 4
    /\ CharAt(s, 5) = "-"
    /\ DigitRun(Drop(s, 5)) = 2
    /\ CharAt(s, 8) = "-"
    /\ DigitRun(Drop(s, 8)) = 2
    /\ ParseInt(SubSeq(s, 6, 7)) \in 1..12
    /\ ParseInt(SubSeq(s, 9, 10)) \in 1..31

\* new Date(s) of a string
NewDate(s) == IF IsIsoDate(s) THEN DateAt(s) ELSE InvalidDate

\* Date strings of a response with whether they denote a date (`parses`)
DateStrings ==
    { [text |-> "2024-01-15", parses |-> TRUE],
      [text |-> "next sprint", parses |-> FALSE],
      [text |-> "2024-13-45", parses |-> FALSE] }

\* work units of a response: createdAt is a string, completedAt an
\* optional string (analyzer.ts:33-37)
RawUnits ==
    { [status |-> "complete", value |-> "high", createdAt |-> c,
       completedAt |-> d] :
         c \in DateStrings \cup { [text |-> "", parses |-> FALSE] },
         d \in { None } \cup { Some(x) : x \in DateStrings } }

\* analyzer.ts:33: z.string().transform((s) => new Date(s))
TransformCreatedAt(s) == NewDate(s)

\* analyzer.ts:34-37: (s) => (s ? new Date(s) : undefined)
TransformCompletedAt(opt) ==
    IF IsSome(opt) /\ Get(opt).text # "" THEN NewDate(Get(opt).text)
    ELSE UndefinedDate

\* analyzer.ts:44-49: identifiers and the instanceof Date tests
MapWorkUnits(raw) ==
    [i \in 1..Len(raw) |->
        LET created == TransformCreatedAt(raw[i].createdAt.text)
            completed == TransformCompletedAt(raw[i].completedAt)
        IN  [id |-> "wu-" \o IntToStr(i), status |-> raw[i].status,
             value |-> raw[i].value,
             createdAt |-> IF created.isDate THEN created ELSE NowDate,
             completedAt |-> IF completed.isDate THEN completed
                             ELSE UndefinedDate]]

\* analyzer.ts:20-31: detectWorkUnits(commits) up to the empty return or the
\* start of the classification request
CallDetectWorkUnits ==
    /\ unit = NoUnit
    /\ UNCHANGED <<pc, repo, host, run, calls, invocations>>
    /\ \E commits \in CommitSeqs :
         LET u == [fn |-> "detectWorkUnits", commits |-> commits,
                   state |-> "pending", raw |-> <<>>, result |-> <<>>,
                   error |-> UndefinedValue]
         IN  IF Len(commits) = 0
             THEN /\ unit' = [u EXCEPT !.state = "returned"]
                  /\ retry' = retry
             ELSE /\ unit' = u
                  /\ retry' = DefaultRetry("detectWorkUnits")

\* analyzer.ts:25-49: the validated response is mapped and returned; an
\* error of withRetry propagates
DetectReturn ==
    /\ unit.fn = "detectWorkUnits"
    /\ unit.state = "pending"
    /\ RetryDone
    /\ retry' = RetryIdle
    /\ UNCHANGED <<pc, repo, host, run, calls, invocations>>
    /\ IF retry.pc = "rejected"
       THEN unit' = [unit EXCEPT !.state = "threw",
                                 !.error = retry.thrown.err]
       ELSE \E raw \in SeqsUpTo(RawUnits, MaxUnits) :
              unit' = [unit EXCEPT !.state = "returned", !.raw = raw,
                                   !.result = MapWorkUnits(raw)]

MaxAttempt == 5

\* utils.ts:65-73, called with attempt numbers, delays and draws of
\* Math.random() of the caller's choice
CallCalculateBackoff ==
    /\ unit = NoUnit
    /\ \E attempt \in 1..MaxAttempt, initialDelayMs \in {0, 1, 100, 1000},
          maxDelayMs \in {0, 100, 1000, 5000, 10000},
          rnd \in {0, 1, 500, 999} :
         unit' = [fn |-> "calculateBackoff", attempt |-> attempt,
                  initialDelayMs |-> initialDelayMs,
                  maxDelayMs |-> maxDelayMs, rnd |-> rnd,
                  result |-> CalculateBackoff(attempt, initialDelayMs,
                                              maxDelayMs, rnd)]
    /\ UNCHANGED <<retry, pc, repo, host, run, calls, invocations>>

\* Remote URLs with what they name: the host, the owner and the repository
\* (`host` "" and no owner when there is no remote).
LabelledRemotes ==
    { [url |-> "", host |-> "", owner |-> "", repo |-> ""] }
    \cup
    { [url |-> "git@" \o h \o ":" \o o \o "/" \o r \o suffix,
       host |-> h, owner |-> o, repo |-> r] :
         h \in {"github.com", "gitlab.com", "notgithub.com"},
         o \in {"org", "my-org"},
         r \in {"proj", "my-complex-repo", "next.js"},
         suffix \in {"", ".git"} }
    \cup
    { [url |-> "https://" \o h \o "/" \o o \o "/" \o r \o suffix,
       host |-> h, owner |-> o, repo |-> r] :
         h \in {"github.com", "gitlab.com", "notgithub.com"},
         o \in {"org", "my-org"},
         r \in {"proj", "my-complex-repo", "next.js"},
         suffix \in {"", ".git"} }

\* github.ts:26-43
CallParseRepoFromRemote ==
    /\ unit = NoUnit
    /\ \E remote \in LabelledRemotes :
         unit' = [fn |-> "parseRepoFromRemote", remote |-> remote,
                  result |-> ParseRepoFromRemote(remote.url)]
    /\ UNCHANGED <<retry, pc, repo, host, run, calls, invocations>>

(***************************************************************************)
(* core/src/git.ts: getCommits                                             *)
(***************************************************************************)
\* String.prototype.indexOf from position i on; 0 when there is none
IndexFrom(s, p, i) ==
    LET hits == { j \in i..(Len(s) - Len(p) + 1) :
                    SubSeq(s, j, j + Len(p) - 1) = p }
    IN  IF hits = {} THEN 0
        ELSE CHOOSE j \in hits : \A k \in hits : j <= k

\* String.prototype.split with a non-empty separator
RECURSIVE Split(_, _)
Split(s, sep) ==
    LET i == IndexFrom(s, sep, 1)
    IN  IF i = 0 THEN << s >>
        ELSE << SubSeq(s, 1, i - 1) >> \o Split(Drop(s, i - 1 + Len(sep)), sep)

RECURSIVE TrimEnd(_)
TrimEnd(s) ==
    IF Len(s) = 0 \/ ~IsSpace(CharAt(s, Len(s))) THEN s
    ELSE TrimEnd(SubSeq(s, 1, Len(s) - 1))

\* String.prototype.trim
Trim(s) == TrimEnd(Drop(s, SpaceRun(s)))

DELIM == "<<COMMIT>>"
FIELD_SEP == "<<FIELD>>"

\* What `git log --format=<format> --name-only` prints for one commit: the
\* format line (%b ends with a line break when the body is not empty), then
\* a blank line and the changed paths.
RenderCommit(c) ==
    DELIM \o c.hash \o FIELD_SEP \o c.shortHash \o FIELD_SEP \o c.message
        \o FIELD_SEP \o (IF c.body = "" THEN "" ELSE c.body \o "\n")
        \o FIELD_SEP \o c.author.name \o FIELD_SEP \o c.author.email
        \o FIELD_SEP \o c.date \o "\n"
        \o (IF Len(c.files) = 0 THEN ""
            ELSE "\n" \o Join(c.files, "\n") \o "\n")

\* the output of git log for the commits, newest first
RenderLog(commits) ==
    Join([i \in 1..Len(commits) |-> RenderCommit(commits[i])], "\n")

\* git.ts:56-84: one entry with at least seven fields becomes a Commit;
\* `date` is the string handed to new Date
ParseEntry(entry) ==
    LET parts == Split(entry, FIELD_SEP)
        dateAndFiles == parts[7]
        dateEndIndex == IndexFrom(dateAndFiles, "\n", 1)
        dateStr == IF dateEndIndex >= 1
                   THEN SubSeq(dateAndFiles, 1, dateEndIndex - 1)
                   ELSE Trim(dateAndFiles)
        filesPart == IF dateEndIndex >= 1
                     THEN Drop(dateAndFiles, dateEndIndex - 1) ELSE ""
        lines == Split(filesPart, "\n")
        trimmed == [i \in 1..Len(lines) |-> Trim(lines[i])]
    IN  [hash |-> Trim(parts[1]), shortHash |-> Trim(parts[2]),
         message |-> Trim(parts[3]), body |-> Trim(parts[4]),
         author |-> [name |-> Trim(parts[5]), email |-> Trim(parts[6])],
         date |-> Trim(dateStr),
         files |-> SelectSeq(trimmed, LAMBDA f : f # "")]

\* git.ts:46-87
GetCommits(result) ==
    IF Trim(result) = "" THEN << >>
    ELSE LET entries == SelectSeq(Split(result, DELIM),
                                  LAMBDA e : Trim(e) # "")
             kept == SelectSeq(entries,
                               LAMBDA e : Len(Split(e, FIELD_SEP)) >= 7)
         IN  [i \in 1..Len(kept) |-> ParseEntry(kept[i])]

LogCommit(hash, message, body, files) ==
    [hash |-> hash \o "c0ffee", shortHash |-> hash, message |-> message,
     body |-> body, author |-> [name |-> "Ann Lee", email |-> "ann@x.io"],
     date |-> "2024-01-15T10:00:00+00:00", files |-> files]

\* commits of a history: bodies with line breaks, blank lines and "|",
\* an empty file list, and text that quotes the tokens of the log format
LogCommits ==
    { LogCommit("a1", "feat: add X", "", << "src/a.ts" >>),
      LogCommit("b2", "fix: a | b", "first line\n\nsecond | line",
                << "src/a.ts", "docs/b c.md" >>),
      LogCommit("c3", "docs: Z", "see | above", << >>),
      LogCommit("d4", "test: quote <<COMMIT>> in subject", "", << "t.ts" >>),
      LogCommit("e5", "fix: parser", "the body quotes <<FIELD>> once",
                << "src/git.ts" >>) }

\* git.ts:38-88, on the output git prints for a history
CallGetCommits ==
    /\ unit = NoUnit
    /\ \E commits \in SeqsUpTo(LogCommits, MaxCommits) :
         unit' = [fn |-> "getCommits", commits |-> commits,
                  result |-> GetCommits(RenderLog(commits))]
    /\ UNCHANGED <<retry, pc, repo, host, run, calls, invocations>>

NextUnit ==
    \/ CallSuggestVersionBump
    \/ CallBumpVersion
    \/ CallMinimalChangelog
    \/ CallUpdateChangelogFile
    \/ CallCalculateBackoff
    \/ CallParseRepoFromRemote
    \/ CallGetCommits
    \/ CallGenerate
    \/ CallDetectWorkUnits
    \/ RetryAttempt
    \/ RetryWake
    \/ GenerateReturn
    \/ DetectReturn

SpecUnit == InitUnit /\ [][NextUnit]_vars

BumpCalled == unit.fn = "suggestVersionBump"

HasFeature ==
    \/ \E i \in 1..Len(unit.workUnits) : unit.workUnits[i].value = "high"
    \/ \E i \in 1..Len(unit.commits) : unit.commits[i].kind = "feat"

BumpIs(breaking) ==
    unit.result = IF breaking THEN "major"
                  ELSE IF HasFeature THEN "minor" ELSE "patch"

\* C17 as stated: major whenever some commit carries a breaking-change
\* marker: the keyword in its subject, a "!" before the type separator, or
\* the footer in its body; otherwise minor exactly when some work unit has
\* value high or some subject begins with the feature prefix; otherwise
\* patch.
C17_Original ==
    BumpCalled =>
        BumpIs(\E i \in 1..Len(unit.commits) : unit.commits[i].marker # "none")

\* C17 amended: as stated, with the "!" recognised only as the first
\* character of the subject; a "!" between the type and its separator
\* ("feat!: ...") is not a marker.
C17_BumpPrecedence ==
    BumpCalled =>
        BumpIs(\E i \in 1..Len(unit.commits) :
                   unit.commits[i].marker \in {"keyword", "leading bang", "footer"})

\* a breaking footer after a feature commit, with a high-value work unit
C17_Witness ==
    /\ BumpCalled
    /\ Len(unit.commits) = 2
    /\ unit.commits[1].kind = "feat" /\ unit.commits[1].marker = "none"
    /\ unit.commits[2].marker = "footer"
    /\ \E i \in 1..Len(unit.workUnits) : unit.workUnits[i].value = "high"
    /\ unit.result = "major"

\* C18: for a version standing for X.Y.Z (leading "v" and trailing label
\* ignored, malformed input being 0.0.0), bumpVersion gives (X+1).0.0 for
\* major, X.(Y+1).0 for minor and X.Y.(Z+1) for patch, with a "v" in front
\* exactly when the input began with "v", and nothing of the label.
C18_BumpVersion ==
    unit.fn = "bumpVersion" =>
        LET w == unit.version
            bare == CASE unit.bump = "major" -> Numeral(w.x + 1) \o ".0.0"
                      [] unit.bump = "minor" ->
                            Numeral(w.x) \o "." \o Numeral(w.y + 1) \o ".0"
                      [] unit.bump = "patch" ->
                            Numeral(w.x) \o "." \o Numeral(w.y) \o "."
                                \o Numeral(w.z + 1)
        IN  /\ unit.parsed = [major |-> w.x, minor |-> w.y, patch |-> w.z]
            /\ unit.result = (IF w.v THEN "v" \o bare ELSE bare)

C18_Witness ==
    /\ unit.fn = "bumpVersion"
    /\ unit.version.text = "v9.12.9-beta.1"
    /\ unit.bump = "minor"
    /\ unit.result = "v9.13.0"

(***************************************************************************)
(* C19                                                                     *)
(***************************************************************************)
GenerateCalled == unit.fn = "generate"

\* the input holds a work unit whose status is complete
SomeComplete ==
    \E i \in 1..Len(unit.workUnits) : unit.workUnits[i].status = "complete"

\* narrative requests made so far by the call of generate
NarrativeRequests ==
    IF unit.state = "pending" THEN Len(retry.log) ELSE unit.requests

\* generate has gone as far as asking for the narrative
NarrativeAsked == unit.state = "pending" \/ unit.requests >= 1

\* C19: generate asks the reasoning provider for a narrative exactly when
\* some work unit is complete; with none complete (no units, or only
\* in_progress and abandoned ones) it returns the fallback text at once,
\* makes no request and does not fail.
C19_NarrativeIffComplete ==
    GenerateCalled =>
        /\ NarrativeAsked <=> SomeComplete
        /\ (unit.state # "pending" /\ SomeComplete) => unit.requests >= 1
        /\ ~SomeComplete =>
              /\ unit.state = "returned"
              /\ unit.result =
                    GenerateMinimalChangelog(unit.commits, unit.version)
              /\ NarrativeRequests = 0
              /\ retry = RetryIdle
              /\ unit.error = UndefinedValue

\* only in_progress and abandoned units: the fallback text came back
C19_Witness ==
    /\ GenerateCalled
    /\ Len(unit.workUnits) = 2
    /\ unit.workUnits[1].status = "in_progress"
    /\ unit.workUnits[2].status = "abandoned"
    /\ Len(unit.commits) > 0
    /\ unit.state = "returned"
    /\ unit.requests = 0

(***************************************************************************)
(* C20                                                                     *)
(***************************************************************************)
MinimalCalled == unit.fn = "generateMinimalChangelog"

\* the text cut at its line breaks
RECURSIVE SplitFrom(_, _, _)
SplitFrom(s, start, i) ==
    IF i > Len(s) THEN << SubSeq(s, start, Len(s)) >>
    ELSE IF CharAt(s, i) = "\n"
    THEN << SubSeq(s, start, i - 1) >> \o SplitFrom(s, i + 1, i + 1)
    ELSE SplitFrom(s, start, i + 1)

LinesOf(s) == SplitFrom(s, 1, 1)

\* positions of the section title in the lines
TitleLines(lines, title) ==
    { h \in 1..Len(lines) : lines[h] = "### " \o title }

\* the lines listed under the title at line h, up to the next title
ListedUnder(lines, h) ==
    LET stops == { j \in (h + 1)..Len(lines) : StartsWith(lines[j], "###") }
                 \cup { Len(lines) + 1 }
        stop == CHOOSE j \in stops : \A k \in stops : j <= k
    IN  SubSeq(lines, h + 1, stop - 1)

\* one list item per commit, in the order given
ItemsOf(commits) == [i \in 1..Len(commits) |-> "- " \o commits[i].message]

\* the section is absent when it has nothing to list; otherwise its title
\* occurs once and is followed by exactly the items of the commits
SectionLists(lines, title, commits) ==
    IF Len(commits) = 0
    THEN TitleLines(lines, title) = {}
    ELSE /\ Cardinality(TitleLines(lines, title)) = 1
         /\ \A h \in TitleLines(lines, title) :
               ListedUnder(lines, h) = ItemsOf(commits)

WithPrefix(commits, prefix) ==
    SelectSeq(commits, LAMBDA c : c.prefix = prefix)

\* C20: the fallback changelog starts with the dated "## <version>"
\* heading; the commits with the feature prefix are listed once each, in
\* input order, under "New Features", those with the fix prefix under
\* "Bug Fixes", each section only when it has a commit; "Changes" lists all
\* commits exactly when there are commits and none has either prefix; no
\* commits give the heading and the "No significant changes." line.
C20_FallbackShape ==
    MinimalCalled =>
        LET lines == LinesOf(unit.result)
            commits == unit.commits
            features == WithPrefix(commits, "feat")
            fixes == WithPrefix(commits, "fix")
            plain == Len(commits) > 0 /\ Len(features) = 0 /\ Len(fixes) = 0
        IN  /\ lines[1] = "## " \o unit.version \o " - " \o Today
            /\ IF Len(commits) = 0
               THEN Tail(lines) = << "", "No significant changes." >>
               ELSE /\ SectionLists(lines, "New Features", features)
                    /\ SectionLists(lines, "Bug Fixes", fixes)
                    /\ SectionLists(lines, "Changes",
                                    IF plain THEN commits ELSE << >>)
                    /\ \A h \in TitleLines(lines, "New Features"),
                          k \in TitleLines(lines, "Bug Fixes") : h < k
                    /\ \A j \in 2..Len(lines) :
                          StartsWith(lines[j], "### ")
                              \/ StartsWith(lines[j], "- ")

\* a feature commit next to one without a prefix: one section, no "Changes"
C20_Witness ==
    /\ MinimalCalled
    /\ Len(unit.commits) = 2
    /\ unit.commits[1].prefix = "none"
    /\ unit.commits[2].prefix = "feat"
    /\ LinesOf(unit.result)[2] = "### New Features"
    /\ Len(LinesOf(unit.result)) = 3

(***************************************************************************)
(* C21                                                                     *)
(***************************************************************************)
UpdateCalled == unit.fn = "updateChangelogFile"

\* a line that is the "# Changelog" header: any letter case, blanks after it
IsHeaderLine(line) ==
    /\ Len(line) >= 11
    /\ ToLowerCase(SubSeq(line, 1, 11)) = "# changelog"
    /\ SpaceRun(Drop(line, 11)) = Len(line) - 11

HeaderLines(text) ==
    LET lines == LinesOf(text)
    IN  { i \in 1..Len(lines) : IsHeaderLine(lines[i]) }

\* the positions at which part occurs in text
Occurrences(text, part) ==
    { i \in 1..(Len(text) - Len(part) + 1) :
        SubSeq(text, i, i + Len(part) - 1) = part }

\* result is text with something holding the entry put in at position k
InsertedAt(result, text, entry, k) ==
    /\ Len(result) >= Len(text) + Len(entry)
    /\ SubSeq(result, 1, k) = SubSeq(text, 1, k)
    /\ Drop(result, Len(result) - (Len(text) - k)) = Drop(text, k)
    /\ Includes(SubSeq(result, k + 1, Len(result) - (Len(text) - k)), entry)

\* nothing but blanks and line breaks
IsBlank(s) == SpaceRun(s) = Len(s)

\* C21: the returned text is the existing text with material inserted at one
\* place; a text that begins with a "# Changelog" header gets the entry
\* right after that header and keeps a single header; a text without it
\* comes back as a fresh header, the entry, then the text.
C21_MergeKeepsContent ==
    UpdateCalled =>
        LET text == unit.existing.text
            entry == unit.newEntry
            result == unit.result
            at == CHOOSE i \in Occurrences(result, entry) :
                      \A j \in Occurrences(result, entry) : i <= j
            before == SubSeq(result, 1, at - 1)
        IN  /\ \E k \in 0..Len(text) : InsertedAt(result, text, entry, k)
            /\ Occurrences(result, entry) # {}
            /\ IF unit.existing.header
               THEN /\ Cardinality(HeaderLines(result)) = 1
                    /\ IsHeaderLine(LinesOf(before)[1])
                    /\ \A i \in 2..Len(LinesOf(before)) :
                          IsBlank(LinesOf(before)[i])
               ELSE /\ before = "# Changelog\n\n"
                    /\ InsertedAt(result, text, entry, 0)
                    /\ IsBlank(SubSeq(result, at + Len(entry),
                                      Len(result) - Len(text)))

(***************************************************************************)
(* C22                                                                     *)
(***************************************************************************)
DetectReturned == unit.fn = "detectWorkUnits" /\ unit.state = "returned"

\* C22: in the work units returned by detectWorkUnits, a createdAt string
\* that denotes no date has become the current time, never an invalid
\* date, and a completedAt string that denotes no date has become absent.
C22_DateDefaults ==
    DetectReturned =>
        \A i \in 1..Len(unit.raw) :
            /\ unit.result[i].createdAt.valid
            /\ ~unit.raw[i].createdAt.parses =>
                  unit.result[i].createdAt = NowDate
            /\ (IsSome(unit.raw[i].completedAt)
                  /\ ~Get(unit.raw[i].completedAt).parses) =>
                  unit.result[i].completedAt = UndefinedDate

(***************************************************************************)
(* C23                                                                     *)
(***************************************************************************)
MissingKeyReported == run.error = Some(ErrMissingKey)

\* the run made or started a request to the reasoning provider
AiRequested == retry.site # "none" \/ run.requests # {} \/ IsSome(run.readiness)

\* C23 as stated: a missing credential is reported only where it is first
\* used, so a run that needs no request to the reasoning provider (nothing
\* committed since the last release) ends without the missing-key error,
\* and the missing-token error comes only from the REST release creation.
C23_Original ==
    /\ (MissingKeyReported /\ pc = "exit1") => ~NoCommits(repo.pending)
    /\ run.error = Some(ErrNoToken) => calls[Len(calls)].op = "createRelease"

\* C23: a missing API key of the configured provider is reported when the
\* engine is created, before anything is read from the repository or asked
\* of the provider, also when nothing was committed since the last release;
\* a run past that point has the key.  A missing host token is reported
\* only by the REST release creation, as the last call of the run.
C23_CredentialChecks ==
    /\ ~run.apiKey =>
          /\ pc = "exit1"
          /\ MissingKeyReported
          /\ calls = <<>>
          /\ ~AiRequested
          /\ run.currentVersion = ""
    /\ MissingKeyReported => ~run.apiKey
    /\ run.error = Some(ErrNoToken) =>
          /\ ~run.token
          /\ Len(calls) > 0
          /\ calls[Len(calls)] = Call("createRelease", run.tagName, FALSE)

\* nothing committed since the last release, no key: the run fails at once
C23_Witness ==
    /\ ~run.apiKey
    /\ MissingKeyReported
    /\ NoCommits(repo.pending)
    /\ IsSome(GetLatestTag(repo))
    /\ pc = "exit1"

(***************************************************************************)
(* C24                                                                     *)
(***************************************************************************)
BackoffCalled == unit.fn = "calculateBackoff"

\* d * 2^(n-1) by repeated doubling
RECURSIVE Doubled(_, _)
Doubled(d, n) == IF n = 1 THEN d ELSE 2 * Doubled(d, n - 1)

\* C24: calculateBackoff(n, d, max) lies between min(d*2^(n-1), max) and
\* min(1.3 * d*2^(n-1), max): within 1 to 1.3 times the exponential delay
\* when the cap does not bite, and never above max.
C24_BackoffRange ==
    BackoffCalled =>
        LET e == Doubled(unit.initialDelayMs, unit.attempt)
            max == unit.maxDelayMs
        IN  /\ Min(e, max) <= unit.result
            /\ 10 * unit.result <= Min(13 * e, 10 * max)
            /\ unit.result <= max
            /\ 13 * e <= 10 * max =>
                  (e <= unit.result /\ 10 * unit.result <= 13 * e)

\* the cap bites only because of the jitter: 4000 ms plus 30% against 5000
C24_Witness ==
    /\ BackoffCalled
    /\ unit.attempt = 3
    /\ unit.initialDelayMs = 1000
    /\ unit.maxDelayMs = 5000
    /\ unit.rnd = 999
    /\ unit.result = 5000

(***************************************************************************)
(* C25                                                                     *)
(***************************************************************************)
ParseRepoCalled == unit.fn = "parseRepoFromRemote"

SupportedHost == "github.com"

\* C25: a remote URL of the supported host, in the SSH or the HTTPS form,
\* with or without ".git", resolves to the owner and the repository it
\* names; no remote URL and a URL of another host resolve to nothing.
C25_RemoteResolution ==
    ParseRepoCalled =>
        IF unit.remote.host = SupportedHost
        THEN unit.result =
                Some([owner |-> unit.remote.owner, name |-> unit.remote.repo])
        ELSE unit.result = None

(***************************************************************************)
(* C26                                                                     *)
(***************************************************************************)
GetCommitsCalled == unit.fn = "getCommits"

\* C26: getCommits returns one Commit per commit of the log, in log order,
\* each with the hash, subject, body, author and changed paths of the
\* commit it stands for; an empty log gives the empty sequence.
C26_LogRoundTrip ==
    GetCommitsCalled =>
        /\ Len(unit.result) = Len(unit.commits)
        /\ \A i \in 1..Len(unit.commits) :
              i <= Len(unit.result) =>
                 /\ unit.result[i].hash = unit.commits[i].hash
                 /\ unit.result[i].message = unit.commits[i].message
                 /\ unit.result[i].body = unit.commits[i].body
                 /\ unit.result[i].author = unit.commits[i].author
                 /\ unit.result[i].files = unit.commits[i].files

(***************************************************************************)
(* C27                                                                     *)
(***************************************************************************)
\* somebody else changed the repository after this executeRelease began
ExternalSinceEntry ==
    IsSome(run.repoAtEntry) /\ repo.external > Get(run.repoAtEntry).external

\* C27: executeRelease creates the tag on the strength of the one
\* cleanliness check and looks at the tree no more: a tag is created only
\* after the check found the tree clean, and the tree is dirty at the
\* moment of creation only when somebody else changed the repository in
\* between; without such a change the tag is created on a clean tree.
C27_CheckThenTagNotAtomic ==
    (run.inExecute /\ IsSome(run.cleanAtTag)) =>
        /\ run.cleanAtCheck = Some(TRUE)
        /\ run.cleanAtTag = Some(FALSE) => ExternalSinceEntry
        /\ ~ExternalSinceEntry => run.cleanAtTag = Some(TRUE)

\* the tree was dirtied after the check; the tag was created and pushed
C27_Witness ==
    /\ run.inExecute /\ ~run.dryRun
    /\ run.cleanAtCheck = Some(TRUE)
    /\ run.cleanAtTag = Some(FALSE)
    /\ TagCreatedAndPushed
    /\ Len(calls) >= 3
    /\ calls[2] = Call("createTag", run.tagName, TRUE)
    /\ calls[3] = Call("pushTag", run.tagName, TRUE)

(***************************************************************************)
(* C28                                                                     *)
(***************************************************************************)
AnalysisReady == IsSome(run.readiness) /\ Get(run.readiness).ready

\* the prompt was shown: configured mode "confirm" and no --ci
Prompted == run.flags.mode = "confirm" /\ ~run.flags.ci

\* the user typed the letter y
SaidYes == run.flags.answer \in {"y", "Y"}

\* the command stopped at the readiness gate
RefusedAtGate ==
    /\ pc = "exit1"
    /\ run.error = None
    /\ IsSome(run.readiness)
    /\ ~run.inExecute

\* C28: the release command gets to executeRelease only when the analysis
\* is ready or --force is given, and the mode is not "confirm" or --ci is
\* given or the prompt was answered with y; without readiness and --force
\* it fails before a changelog is made; a declined prompt ends the command
\* with no tag, push, publication or CHANGELOG.md write.
C28_GatesBeforeExecute ==
    /\ pc \in {"changelog", "confirm", "exec"} =>
          (AnalysisReady \/ run.flags.force)
    /\ pc = "exec" => (~Prompted \/ SaidYes)
    /\ RefusedAtGate =>
          /\ ~AnalysisReady /\ ~run.flags.force
          /\ run.changelog = "" /\ retry.site # "generate"
          /\ calls = <<>>
    /\ pc = "exit0" =>
          /\ Prompted /\ ~SaidYes
          /\ calls = <<>> /\ ~run.inExecute /\ run.result = None
    /\ run.inExecute => run.flags = NoFlags

\* a release forced past an unready analysis and approved at the prompt
C28_Witness ==
    /\ pc = "exec"
    /\ ~AnalysisReady /\ run.flags.force
    /\ Prompted /\ run.flags.answer = "y"

(***************************************************************************)
(* C29                                                                     *)
(***************************************************************************)
\* major.minor.patch order
VersionGreater(a, b) ==
    \/ a.major > b.major
    \/ a.major = b.major /\ a.minor > b.minor
    \/ a.major = b.major /\ a.minor = b.minor /\ a.patch > b.patch

\* C29: the version the release command hands to executeRelease is above
\* the current version (that of the latest tag) in major.minor.patch order,
\* on every path to executeRelease, a forced release included.
C29_VersionIncreases ==
    pc = "exec" =>
        VersionGreater(ParseVersion(run.version),
                       ParseVersion(run.currentVersion))

(***************************************************************************)
(* C30                                                                     *)
(***************************************************************************)
\* C30: whatever the options, maxRetries of 0 or below included, a settled
\* withRetry has invoked the operation at least once, and what it rejects
\* with was thrown by one of those invocations.
C30_InvokedAtLeastOnce ==
    RetryDone =>
        /\ Len(retry.log) >= 1
        /\ retry.pc = "rejected" =>
              \E i \in 1..Len(retry.log) :
                  ~retry.log[i].ok /\ retry.log[i].err = retry.thrown.err

====
